---- MODULE Spec2Model ----
(***************************************************************************)
(* Email-Craft: the send pipeline of POST /api/email/send                  *)
(* (src/app/api/email/send/route.ts, lines 157-356) and the token          *)
(* lifecycle of getUserTokens / refreshAccessToken (src/lib/auth.ts).      *)
(*                                                                         *)
(* Every `await` of the handler is a scheduling point: one action models   *)
(* the code that runs between two awaits.  Several requests run            *)
(* concurrently against one database (accounts, emailSends) and one mail   *)
(* provider (token endpoint, users.getProfile, users.messages.send).       *)
(*                                                                         *)
(* Optional JS values (null / undefined) are sequences of length 0 or 1.   *)
(* Strings whose characters the code inspects (email addresses) are        *)
(* sequences of one-character strings; provider error messages and scope   *)
(* strings are sequences of words.                                         *)
(***************************************************************************)
EXTENDS Integers, Sequences, FiniteSets, TLC

None == <<>>
Some(x) == <<x>>
IsSome(o) == Len(o) = 1
Get(o) == o[1]

\* String.prototype.includes on a modelled string (sequence of characters or words)
Includes(str, part) == \E i \in 1..Len(str) : str[i] = part

\* Array.prototype.map(r => r.email)
MapEmail(seq) == [i \in 1..Len(seq) |-> Get(seq[i].email)]

------------------------------------------------------------------------------
\* Bounds of the model

\* number of POST /api/email/send requests handled (concurrently)
MaxCalls == 2
\* number of times the wall clock advances (by 100 s each time)
MaxTicks == 1

Calls == 1..MaxCalls

\* wall clock (Date.now(), milliseconds): it starts at 100 s and advances in
\* steps of 100 s, MaxTicks times at most
ClockValues == {100000 * k : k \in 1..(MaxTicks + 1)}

------------------------------------------------------------------------------
\* Users, sessions, chats (collaborators of the send pipeline)

Users == {"u1", "u2", "u3"}

\* session.user.email: u3 is a user whose profile carries no email
UserEmail(u) ==
    CASE u = "u1" -> Some(<<"u", "1", "@", "m", ".", "io">>)
      [] u = "u2" -> Some(<<"u", "2", "@", "m", ".", "io">>)
      [] OTHER -> None

\* session.user.name
UserName(u) == IF u = "u2" THEN None ELSE Some("Name-" \o u)

\* prisma.chat rows: chat id -> owner
ChatIds == {"c1", "c2", "c3"}
ChatOwner(ch) ==
    CASE ch = "c1" -> "u1"
      [] ch = "c2" -> "u2"
      [] OTHER -> "u3"

\* prisma.chat.findFirst({ where: { id, userId } })
FindChat(chatId, userId) ==
    IF chatId \in ChatIds /\ ChatOwner(chatId) = userId THEN Some(chatId) ELSE None

------------------------------------------------------------------------------
\* Request bodies (SendEmailRequest)

E_ab == <<"a", "@", "b", ".", "c">>
E_cd == <<"c", "@", "d", ".", "o">>
E_plain == <<"n", "o">>
E_at == <<"a", "@", "b">>
E_dot == <<"a", ".", "b">>

Rcpt(e) == [email |-> Some(e)]
RcptNoEmail == [email |-> None]

Req(ch, s, t, r, rt) ==
    [chatId |-> ch, subject |-> s, template |-> t, recipients |-> r, replyTo |-> rt,
     senderName |-> None]

MixedList == <<Rcpt(E_ab), Rcpt(E_plain), Rcpt(E_cd)>>
ValidList == <<Rcpt(E_cd), Rcpt(E_ab)>>
InvalidList == <<Rcpt(E_at), RcptNoEmail, Rcpt(E_dot), Rcpt(E_plain)>>

\* HTML is a sequence of nodes (tags with their attributes, text)
Node(tag, attrs) == [tag |-> tag, attrs |-> attrs]
Fragment == <<Node("p", <<>>), Node("#text", <<"x">>), Node("/p", <<>>)>>

Arrival(s, d) == [session |-> s, data |-> d]

\* the requests the model sends, each with the session it arrives under;
\* "" (<<>> for the template) is a missing (falsy) field, recipients None is an
\* absent recipients array
Arrivals ==
    { Arrival(Some("u1"), Req("c1", "Hi", Fragment, Some(MixedList), None)),
      Arrival(Some("u2"), Req("c2", "Hi", Fragment, Some(ValidList), Some(E_ab))),
      Arrival(Some("u1"), [Req("c1", "Yo", Fragment, Some(ValidList), Some(E_cd))
                              EXCEPT !.senderName = Some("Boss")]),
      Arrival(None, Req("c1", "Hi", Fragment, Some(MixedList), None)),
      Arrival(Some("u1"), Req("c2", "", Fragment, Some(MixedList), None)),
      Arrival(Some("u1"), Req("c1", "Hi", <<>>, Some(MixedList), None)),
      Arrival(Some("u1"), Req("", "Hi", Fragment, Some(MixedList), None)),
      Arrival(Some("u1"), Req("c1", "Hi", Fragment, Some(InvalidList), None)),
      Arrival(Some("u1"), Req("c1", "Hi", Fragment, None, None)),
      Arrival(Some("u1"), Req("c2", "Hi", Fragment, Some(MixedList), None)),
      Arrival(Some("u2"), Req("c1", "Hi", Fragment, Some(<<>>), None)),
      Arrival(Some("u3"), Req("c3", "Hi", Fragment, Some(ValidList), None)) }

------------------------------------------------------------------------------
\* OAuth grants (prisma.account rows of provider "google")

GmailSend == "https://www.googleapis.com/auth/gmail.send"
GmailCompose == "https://www.googleapis.com/auth/gmail.compose"

requiredScopes == <<GmailSend, GmailCompose>>

\* access and refresh tokens are opaque numbers; 0 is a missing (falsy) token
NoToken == 0

Grant(at, rt, exp, sc) ==
    [access_token |-> at, refresh_token |-> rt, expires_at |-> exp, scope |-> sc]

\* expires_at is epoch seconds; 0 stands for a null expires_at
AccountsOfU1 ==
    { None,
      Some(Grant(11, 12, 500, <<"openid", GmailCompose>>)),
      Some(Grant(11, 12, 500, <<"openid", "email">>)),
      Some(Grant(11, NoToken, 500, <<"openid", GmailSend>>)) }

AccountsOfU2 == { Some(Grant(21, 22, 0, <<GmailSend, "email">>)) }

\* the grants getUserTokens is called with when it is studied on its own: also
\* grants that expired in the past (50 s), with and without scope or refresh token
TokenAccountsOfU1 ==
    AccountsOfU1 \cup
    { Some(Grant(11, 12, 50, <<GmailSend>>)),
      Some(Grant(11, 12, 50, <<"openid">>)),
      Some(Grant(11, NoToken, 0, <<GmailSend>>)) }

TokenAccountsOfU2 ==
    AccountsOfU2 \cup { Some(Grant(21, 22, 50, <<"email", GmailCompose>>)) }

\* OK answers of the provider's token endpoint: expires_in (seconds), whether a
\* refresh_token comes with it (rotation), whether a scope comes with it
TokenResponse(expiresIn, rotated, withScope) ==
    [expires_in |-> expiresIn, rotated |-> rotated, withScope |-> withScope]

TokenResponses ==
    { TokenResponse(3600, TRUE, FALSE),
      TokenResponse(50, FALSE, TRUE) }

------------------------------------------------------------------------------
\* Provider errors (GaxiosError: code, message)

Err(code, msg) == [code |-> code, message |-> msg]

\* code 0 stands for an error without a numeric code (network error, timeout)
ProviderErrors ==
    { Err(401, <<"Invalid", "Credentials">>),
      Err(403, <<"Insufficient", "Permission">>),
      Err(429, <<"Rate", "Limit", "Exceeded">>),
      Err(400, <<"invalid_grant", "Token", "revoked">>),
      Err(400, <<"Bad", "Request">>),
      Err(0, <<"ETIMEDOUT">>) }

\* a rejected prisma.emailSend.update
DbError == Err(0, <<"PrismaClientKnownRequestError">>)

------------------------------------------------------------------------------
\* State

\* Chat sessions of the template generator (src/app/api/email-styler/route.ts)

\* session ids a client sends, and the ids generateSessionId can return
ClientSessionIds == {"s1", "s2"}
GeneratedSessionIds == {"email_chat_1"}
AllSessionIds == ClientSessionIds \cup GeneratedSessionIds

\* a Map without entries
EmptyMap == [id \in AllSessionIds |-> None]

\* a POST of the email-styler route that has not arrived
IdleStyler == [pc |-> "idle", currentSessionId |-> "", message |-> "",
               maintainMemory |-> FALSE, status |-> 0]

VARIABLES
    clock,            \* Date.now()
    accounts,         \* prisma.account: user -> optional grant
    emailSends,       \* prisma.emailSend: sequence of rows, row i has id i
    gmail,            \* the provider: messages it accepted, in order
    issued,           \* the provider: number of token responses it has issued
    pc,               \* per call: position of POST
    session,          \* per call: getServerSession result
    data,             \* per call: request body
    validRecipients,  \* per call: filtered recipients
    emailSend,        \* per call: id of the row it created (0: none yet)
    tkpc,             \* per call: position of getUserTokens
    account,          \* per call: getUserTokens' local `account` (gone when it returns)
    refreshedTokens,  \* per call: getUserTokens' local `refreshedTokens` (likewise)
    tokens,           \* per call: result of getUserTokens (a local of POST: gone when it returns)
    gmailTest,        \* per call: result of testGmailAccess (line 233)
    processedHtml,    \* per call: result of processHtmlForEmail (line 265)
    finalHtml,        \* per call: result of optimizeHtmlForEmail (line 266)
    sendError,        \* per call: the caught error
    sendResponse,     \* per call: response.data of users.messages.send
    response,         \* per call: the HTTP response returned
    trace,            \* per call: history of the external calls it made
    sessions,         \* ChatSessionManager.sessions: id -> optional chat session
    sessionHistory,   \* ChatSessionManager.sessionHistory: id -> optional messages
    sessionMetadata,  \* ChatSessionManager.sessionMetadata: id -> optional metadata
    stylerCall,       \* per call: position and locals of the email-styler POST
    cleared           \* history: ids cleared and not passed to getOrCreateSession since

vars == <<clock, accounts, emailSends, gmail, issued, pc, session, data,
          validRecipients, emailSend, tkpc, account, refreshedTokens, tokens,
          gmailTest, processedHtml, finalHtml, sendError, sendResponse, response,
          trace, sessions, sessionHistory, sessionMetadata, stylerCall, cleared>>

\* the state of the template-generation session manager and of its callers
chatVars == <<sessions, sessionHistory, sessionMetadata, stylerCall, cleared>>

callVars == <<pc, session, data, validRecipients, emailSend, tkpc, account,
              refreshedTokens, tokens, gmailTest, processedHtml, finalHtml,
              sendError, sendResponse, response, trace>>

\* findAccount .. statusUpdate count the calls made to the database and to the
\* provider; noToken counts getUserTokens returning null, profileFailed the
\* failed pre-flights, accepted the messages the provider accepted
NoTrace == [findAccount |-> 0, refresh |-> 0, accountUpdate |-> 0, noToken |-> 0,
            create |-> 0, getProfile |-> 0, profileFailed |-> 0, render |-> 0,
            send |-> 0, accepted |-> 0, statusUpdate |-> 0]

Bump(c, field) == [trace EXCEPT ![c][field] = @ + 1]

Init ==
    /\ clock = 100000
    /\ accounts \in { [u \in Users |->
                         CASE u = "u1" -> a1 [] u = "u2" -> a2 [] OTHER -> None]
                      : a1 \in AccountsOfU1, a2 \in AccountsOfU2 }
    /\ emailSends = <<>>
    /\ gmail = <<>>
    /\ issued = 0
    /\ pc = [c \in Calls |-> "idle"]
    /\ session = [c \in Calls |-> None]
    /\ data = [c \in Calls |-> None]
    /\ validRecipients = [c \in Calls |-> <<>>]
    /\ emailSend = [c \in Calls |-> 0]
    /\ tkpc = [c \in Calls |-> "idle"]
    /\ account = [c \in Calls |-> None]
    /\ refreshedTokens = [c \in Calls |-> None]
    /\ tokens = [c \in Calls |-> None]
    /\ gmailTest = [c \in Calls |-> None]
    /\ processedHtml = [c \in Calls |-> None]
    /\ finalHtml = [c \in Calls |-> None]
    /\ sendError = [c \in Calls |-> None]
    /\ sendResponse = [c \in Calls |-> None]
    /\ response = [c \in Calls |-> None]
    /\ trace = [c \in Calls |-> NoTrace]
    /\ sessions = EmptyMap
    /\ sessionHistory = EmptyMap
    /\ sessionMetadata = EmptyMap
    /\ stylerCall = [c \in Calls |-> IdleStyler]
    /\ cleared = {}

\* the state in which getUserTokens is studied on its own
TokenInit ==
    /\ clock = 100000
    /\ accounts \in { [u \in Users |->
                         CASE u = "u1" -> a1 [] u = "u2" -> a2 [] OTHER -> None]
                      : a1 \in TokenAccountsOfU1, a2 \in TokenAccountsOfU2 }
    /\ emailSends = <<>>
    /\ gmail = <<>>
    /\ issued = 0
    /\ pc = [c \in Calls |-> "idle"]
    /\ session = [c \in Calls |-> None]
    /\ data = [c \in Calls |-> None]
    /\ validRecipients = [c \in Calls |-> <<>>]
    /\ emailSend = [c \in Calls |-> 0]
    /\ tkpc = [c \in Calls |-> "idle"]
    /\ account = [c \in Calls |-> None]
    /\ refreshedTokens = [c \in Calls |-> None]
    /\ tokens = [c \in Calls |-> None]
    /\ gmailTest = [c \in Calls |-> None]
    /\ processedHtml = [c \in Calls |-> None]
    /\ finalHtml = [c \in Calls |-> None]
    /\ sendError = [c \in Calls |-> None]
    /\ sendResponse = [c \in Calls |-> None]
    /\ response = [c \in Calls |-> None]
    /\ trace = [c \in Calls |-> NoTrace]
    /\ sessions = EmptyMap
    /\ sessionHistory = EmptyMap
    /\ sessionMetadata = EmptyMap
    /\ stylerCall = [c \in Calls |-> IdleStyler]
    /\ cleared = {}

\* time passes
Tick ==
    /\ clock + 100000 \in ClockValues
    /\ clock' = clock + 100000
    /\ UNCHANGED <<accounts, emailSends, gmail, issued, callVars, chatVars>>

------------------------------------------------------------------------------
\* HTTP responses (NextResponse.json(body, { status }))

\* a body field the response does not carry is "" (strings), <<>> (details)
\* or 0 (numbers)
Resp(status, success, error, details, code) ==
    [status |-> status, success |-> success, error |-> error, details |-> details,
     code |-> code, emailSendId |-> 0, messageId |-> 0, threadId |-> 0,
     recipients |-> 0]

Unauthorized == Resp(401, "absent", "Unauthorized", <<>>, "")
MissingFields ==
    Resp(400, "false", "Missing required fields",
         <<"Subject, template, and chat ID are required">>, "")
ChatNotFound == Resp(404, "absent", "Chat not found", <<>>, "")
NoValidRecipients == Resp(400, "false", "No valid recipient emails provided", <<>>, "")
MissingSenderEmail == Resp(400, "false", "User email not found", <<>>, "MISSING_SENDER_EMAIL")
AuthRequired ==
    Resp(401, "false", "Google account authentication failed",
         <<"Please sign in with Google again to send emails">>, "AUTH_REQUIRED")

------------------------------------------------------------------------------
\* POST, lines 159-203: session, required fields, chat ownership, recipients

\* a variant that asks for the "@" only
IsValidRecipient_AtOnly(r) ==
    /\ IsSome(r.email)
    /\ Includes(Get(r.email), "@")

\* r => r.email?.includes("@") && r.email?.includes(".")
IsValidRecipient(r) ==
    /\ IsSome(r.email)
    /\ Includes(Get(r.email), "@")
    /\ Includes(Get(r.email), ".")

\* data.recipients?.filter(...) || []
RECURSIVE FilterList(_)
FilterList(rs) ==
    IF rs = <<>> THEN <<>>
    ELSE IF IsValidRecipient(Head(rs))
         THEN <<Head(rs)>> \o FilterList(Tail(rs))
         ELSE FilterList(Tail(rs))

FilterRecipients(recipients) ==
    IF IsSome(recipients) THEN FilterList(Get(recipients)) ELSE <<>>

\* a variant that forgets the check of line 187 (no valid recipient)
Validate_NoRecipientCheck(s, d) ==
    IF ~IsSome(s) THEN Some(Unauthorized)
    ELSE IF d.subject = "" \/ d.template = <<>> \/ d.chatId = "" THEN Some(MissingFields)
    ELSE IF ~IsSome(FindChat(d.chatId, Get(s))) THEN Some(ChatNotFound)
    ELSE IF ~IsSome(UserEmail(Get(s))) THEN Some(MissingSenderEmail)
    ELSE None

\* a variant without the chat lookup of lines 175-185
Validate_NoChatCheck(s, d) ==
    IF ~IsSome(s) THEN Some(Unauthorized)
    ELSE IF d.subject = "" \/ d.template = <<>> \/ d.chatId = "" THEN Some(MissingFields)
    ELSE IF Len(FilterRecipients(d.recipients)) = 0 THEN Some(NoValidRecipients)
    ELSE IF ~IsSome(UserEmail(Get(s))) THEN Some(MissingSenderEmail)
    ELSE None

\* the response of the checks that precede the audit record, None when
\* the request passes all of them
Validate(s, d) ==
    IF ~IsSome(s) THEN Some(Unauthorized)
    ELSE IF d.subject = "" \/ d.template = <<>> \/ d.chatId = "" THEN Some(MissingFields)
    ELSE IF ~IsSome(FindChat(d.chatId, Get(s))) THEN Some(ChatNotFound)
    ELSE IF Len(FilterRecipients(d.recipients)) = 0 THEN Some(NoValidRecipients)
    ELSE IF ~IsSome(UserEmail(Get(s))) THEN Some(MissingSenderEmail)
    ELSE None

\* data.senderName || session.user.name || "User"
SenderName(s, d) ==
    IF IsSome(d.senderName) THEN Get(d.senderName)
    ELSE IF IsSome(UserName(Get(s))) THEN Get(UserName(Get(s)))
    ELSE "User"

\* A request arrives.  It is rejected, or getUserTokens and
\* prisma.emailSend.create are both started (Promise.all, line 206).
Receive(c) ==
    /\ pc[c] = "idle"
    /\ \E arrival \in Arrivals :
       LET s == arrival.session
           d == arrival.data
       IN
         /\ session' = [session EXCEPT ![c] = s]
         /\ data' = [data EXCEPT ![c] = Some(d)]
         /\ IF IsSome(Validate(s, d))
            THEN /\ response' = [response EXCEPT ![c] = Validate(s, d)]
                 /\ pc' = [pc EXCEPT ![c] = "done"]
                 /\ UNCHANGED <<validRecipients, tkpc>>
            ELSE /\ validRecipients' =
                       [validRecipients EXCEPT ![c] = FilterRecipients(d.recipients)]
                 /\ pc' = [pc EXCEPT ![c] = "acquire"]
                 /\ tkpc' = [tkpc EXCEPT ![c] = "load"]
                 /\ UNCHANGED response
    /\ UNCHANGED <<chatVars, clock, accounts, emailSends, gmail, issued, emailSend, account,
                   refreshedTokens, tokens, sendError, sendResponse, gmailTest, processedHtml,
                   finalHtml, trace>>

------------------------------------------------------------------------------
\* POST, lines 208-220: the audit record

\* a variant that takes the sender address from the body (replyTo) when it is given
NewEmailSend_BodySender(id, s, d, rcpts) ==
    [id |-> id, chatId |-> d.chatId, userId |-> Get(s), subject |-> d.subject,
     senderName |-> SenderName(s, d),
     senderEmail |-> IF IsSome(d.replyTo) THEN Get(d.replyTo) ELSE Get(UserEmail(Get(s))),
     recipients |-> rcpts, templateHtml |-> d.template, status |-> "PENDING",
     sentAt |-> None, errorMessage |-> None, metadata |-> None]

NewEmailSend(id, s, d, rcpts) ==
    [id |-> id, chatId |-> d.chatId, userId |-> Get(s), subject |-> d.subject,
     senderName |-> SenderName(s, d), senderEmail |-> Get(UserEmail(Get(s))),
     recipients |-> rcpts, templateHtml |-> d.template, status |-> "PENDING",
     sentAt |-> None, errorMessage |-> None, metadata |-> None]

\* a variant that hands out the id of the newest row again
NextId_Reused(rows) == IF rows = <<>> THEN 1 ELSE Len(rows)

\* the id the database gives the next row (@default(uuid()): never seen before)
NextId(rows) == Len(rows) + 1

CreateRecord(c) ==
    /\ pc[c] = "acquire"
    /\ emailSend[c] = 0
    /\ LET id == NextId(emailSends)
       IN /\ emailSends' =
                 Append(emailSends,
                        NewEmailSend(id, session[c], Get(data[c]), validRecipients[c]))
          /\ emailSend' = [emailSend EXCEPT ![c] = id]
    /\ trace' = Bump(c, "create")
    /\ UNCHANGED <<chatVars, clock, accounts, gmail, issued, pc, session, data, validRecipients,
                   tkpc, account, refreshedTokens, tokens, sendError, sendResponse, gmailTest, processedHtml,
                   finalHtml,
                   response>>

------------------------------------------------------------------------------
\* getUserTokens (src/lib/auth.ts, lines 169-255)

\* requiredScopes.some(scope => account.scope?.includes(scope))
hasRequiredScopes(acc) ==
    \E i \in 1..Len(requiredScopes) : Includes(acc.scope, requiredScopes[i])

\* the safety buffer of line 213
SkewMs == 5 * 60 * 1000

\* account.expires_at ? account.expires_at * 1000 : 0
ExpiresAtMs(acc) == IF acc.expires_at # 0 THEN acc.expires_at * 1000 ELSE 0

\* a variant that compares milliseconds with seconds
StillValid_Seconds(acc, now) ==
    /\ acc.expires_at # 0
    /\ now < acc.expires_at - SkewMs

\* expiresAt && now < expiresAt - 5 * 60 * 1000
StillValid(acc, now) ==
    /\ ExpiresAtMs(acc) # 0
    /\ now < ExpiresAtMs(acc) - SkewMs

\* a variant that looks at the expiry before it looks at the scope
TokenDecision_ExpiryFirst(row, now) ==
    IF ~IsSome(row) THEN "none"
    ELSE IF Get(row).access_token = NoToken \/ Get(row).refresh_token = NoToken THEN "none"
    ELSE IF StillValid(Get(row), now) THEN "stored"
    ELSE IF ~hasRequiredScopes(Get(row)) THEN "none"
    ELSE "refresh"

\* what getUserTokens does with the row it loaded: "none" (return null),
\* "stored" (return the stored tokens) or "refresh" (call the provider)
TokenDecision(row, now) ==
    IF ~IsSome(row) THEN "none"
    ELSE IF Get(row).access_token = NoToken \/ Get(row).refresh_token = NoToken THEN "none"
    ELSE IF ~hasRequiredScopes(Get(row)) THEN "none"
    ELSE IF StillValid(Get(row), now) THEN "stored"
    ELSE "refresh"

Tokens(at, rt) == [accessToken |-> at, refreshToken |-> rt]

\* lines 174-223: load the grant, check it, return or start the refresh call
LoadAccount(c) ==
    /\ tkpc[c] = "load"
    /\ LET row == accounts[Get(session[c])]
           decision == TokenDecision(row, clock)
       IN /\ CASE decision = "none" ->
                    /\ tkpc' = [tkpc EXCEPT ![c] = "done"]
                    /\ tokens' = [tokens EXCEPT ![c] = None]
                    /\ trace' = [trace EXCEPT ![c].findAccount = @ + 1,
                                              ![c].noToken = @ + 1]
                    /\ UNCHANGED account
               [] decision = "stored" ->
                    /\ tkpc' = [tkpc EXCEPT ![c] = "done"]
                    /\ UNCHANGED account
                    /\ tokens' = [tokens EXCEPT ![c] =
                                     Some(Tokens(Get(row).access_token,
                                                 Get(row).refresh_token))]
                    /\ trace' = Bump(c, "findAccount")
               [] OTHER ->
                    /\ account' = [account EXCEPT ![c] = row]
                    /\ tkpc' = [tkpc EXCEPT ![c] = "refreshing"]
                    /\ tokens' = tokens
                    /\ trace' = [trace EXCEPT ![c].findAccount = @ + 1,
                                              ![c].refresh = @ + 1]
    /\ UNCHANGED <<chatVars, clock, accounts, emailSends, gmail, issued, pc, session, data,
                   validRecipients, emailSend, refreshedTokens, sendError,
                   sendResponse, gmailTest, processedHtml,
                   finalHtml, response>>

\* a variant that takes expires_in for the expiry, without Date.now()
Refreshed_NoNow(n, now, expiresIn, rotated, oldRefreshToken, scope) ==
    [accessToken |-> 100 + n,
     accessTokenExpires |-> expiresIn * 1000,
     refreshToken |-> IF rotated THEN 200 + n ELSE oldRefreshToken,
     scope |-> scope]

\* a variant without the fallback to the refresh token that was sent
Refreshed_NoFallback(n, now, expiresIn, rotated, oldRefreshToken, scope) ==
    [accessToken |-> 100 + n,
     accessTokenExpires |-> now + expiresIn * 1000,
     refreshToken |-> IF rotated THEN 200 + n ELSE NoToken,
     scope |-> scope]

\* refreshAccessToken, lines 61-74: the value built from an OK token response
\* (n: the provider's n-th token response; rotated: it carries a refresh_token)
Refreshed(n, now, expiresIn, rotated, oldRefreshToken, scope) ==
    [accessToken |-> 100 + n,
     accessTokenExpires |-> now + expiresIn * 1000,
     refreshToken |-> IF rotated THEN 200 + n ELSE oldRefreshToken,
     scope |-> scope]

\* a variant that calls the token endpoint a second time when the first call
\* fails
RefreshReply_Retry(c) ==
    /\ tkpc[c] = "refreshing"
    /\ \/ /\ trace[c].refresh < 2
          /\ trace' = Bump(c, "refresh")
          /\ UNCHANGED <<tkpc, tokens, account, issued, refreshedTokens>>
       \/ /\ trace[c].refresh >= 2
          /\ tkpc' = [tkpc EXCEPT ![c] = "done"]
          /\ tokens' = [tokens EXCEPT ![c] = None]
          /\ account' = [account EXCEPT ![c] = None]
          /\ trace' = Bump(c, "noToken")
          /\ UNCHANGED <<issued, refreshedTokens>>
       \/ \E t \in TokenResponses :
            /\ issued' = issued + 1
            /\ refreshedTokens' =
                  [refreshedTokens EXCEPT ![c] =
                      Some(Refreshed(issued + 1, clock, t.expires_in, t.rotated,
                                     Get(account[c]).refresh_token,
                                     IF t.withScope THEN Get(account[c]).scope ELSE <<>>))]
            /\ tkpc' = [tkpc EXCEPT ![c] = "persist"]
            /\ UNCHANGED <<tokens, account, trace>>
    /\ UNCHANGED <<chatVars, clock, accounts, emailSends, gmail, pc, session, data,
                   validRecipients, emailSend, gmailTest, processedHtml,
                   finalHtml, sendError, sendResponse,
                   response>>

\* lines 223-228 with refreshAccessToken 48-78: the provider's token endpoint
\* answers; a non-OK answer or a network error makes getUserTokens return null
RefreshReply(c) ==
    /\ tkpc[c] = "refreshing"
    /\ \/ /\ tkpc' = [tkpc EXCEPT ![c] = "done"]
          /\ tokens' = [tokens EXCEPT ![c] = None]
          /\ account' = [account EXCEPT ![c] = None]
          /\ trace' = Bump(c, "noToken")
          /\ UNCHANGED <<issued, refreshedTokens>>
       \/ \E t \in TokenResponses :
            /\ issued' = issued + 1
            /\ refreshedTokens' =
                  [refreshedTokens EXCEPT ![c] =
                      Some(Refreshed(issued + 1, clock, t.expires_in, t.rotated,
                                     Get(account[c]).refresh_token,
                                     IF t.withScope THEN Get(account[c]).scope ELSE <<>>))]
            /\ tkpc' = [tkpc EXCEPT ![c] = "persist"]
            /\ UNCHANGED <<tokens, account, trace>>
    /\ UNCHANGED <<chatVars, clock, accounts, emailSends, gmail, pc, session, data,
                   validRecipients, emailSend, sendError, sendResponse, gmailTest, processedHtml,
                   finalHtml,
                   response>>

\* a variant that writes back the refresh token it loaded
UpdatedGrant_OldRefreshToken(acc, r) ==
    Grant(r.accessToken,
          acc.refresh_token,
          r.accessTokenExpires \div 1000,
          IF r.scope # <<>> THEN r.scope ELSE acc.scope)

\* the data of prisma.account.update, lines 238-243
UpdatedGrant(acc, r) ==
    Grant(r.accessToken,
          r.refreshToken,
          r.accessTokenExpires \div 1000,
          IF r.scope # <<>> THEN r.scope ELSE acc.scope)

\* a variant that updates the grant field by field: the refresh token is
\* written only when the response rotated it
PersistTokens_FieldByField(c) ==
    /\ tkpc[c] = "persist"
    /\ LET r == Get(refreshedTokens[c])
           u == Get(session[c])
           g == UpdatedGrant(Get(account[c]), r)
       IN /\ accounts' = [accounts EXCEPT ![u] =
                             Some([g EXCEPT !.refresh_token =
                                      IF r.refreshToken = Get(account[c]).refresh_token
                                      THEN Get(accounts[u]).refresh_token
                                      ELSE r.refreshToken])]
          /\ tokens' = [tokens EXCEPT ![c] = Some(Tokens(r.accessToken, r.refreshToken))]
    /\ tkpc' = [tkpc EXCEPT ![c] = "done"]
    /\ account' = [account EXCEPT ![c] = None]
    /\ refreshedTokens' = [refreshedTokens EXCEPT ![c] = None]
    /\ trace' = Bump(c, "accountUpdate")
    /\ UNCHANGED <<chatVars, clock, emailSends, gmail, issued, pc, session, data,
                   validRecipients, emailSend, sendError, sendResponse, gmailTest, processedHtml,
                   finalHtml, response>>

\* a variant whose update matches every google grant, not the user's alone
PersistTokens_AllAccounts(c) ==
    /\ tkpc[c] = "persist"
    /\ LET r == Get(refreshedTokens[c])
       IN /\ accounts' = [u \in Users |->
                             IF IsSome(accounts[u])
                             THEN Some(UpdatedGrant(Get(account[c]), r))
                             ELSE None]
          /\ tokens' = [tokens EXCEPT ![c] = Some(Tokens(r.accessToken, r.refreshToken))]
    /\ tkpc' = [tkpc EXCEPT ![c] = "done"]
    /\ account' = [account EXCEPT ![c] = None]
    /\ refreshedTokens' = [refreshedTokens EXCEPT ![c] = None]
    /\ trace' = Bump(c, "accountUpdate")
    /\ UNCHANGED <<chatVars, clock, emailSends, gmail, issued, pc, session, data,
                   validRecipients, emailSend, sendError, sendResponse, gmailTest, processedHtml,
                   finalHtml, response>>

\* lines 231-250: persist the refreshed tokens and return them
PersistTokens(c) ==
    /\ tkpc[c] = "persist"
    /\ LET r == Get(refreshedTokens[c])
       IN /\ accounts' = [accounts EXCEPT ![Get(session[c])] =
                             Some(UpdatedGrant(Get(account[c]), r))]
          /\ tokens' = [tokens EXCEPT ![c] = Some(Tokens(r.accessToken, r.refreshToken))]
    /\ tkpc' = [tkpc EXCEPT ![c] = "done"]
    /\ account' = [account EXCEPT ![c] = None]
    /\ refreshedTokens' = [refreshedTokens EXCEPT ![c] = None]
    /\ trace' = Bump(c, "accountUpdate")
    /\ UNCHANGED <<chatVars, clock, emailSends, gmail, issued, pc, session, data,
                   validRecipients, emailSend, sendError, sendResponse, gmailTest, processedHtml,
                   finalHtml, response>>

------------------------------------------------------------------------------
\* EmailRenderer (route.ts, lines 75-155)

\* String.prototype.trim, as far as startsWith sees it: leading white space
\* (nodes of tag "#ws") is dropped
RECURSIVE TrimStart(_)
TrimStart(html) ==
    IF html # <<>> /\ Head(html).tag = "#ws" THEN TrimStart(Tail(html)) ELSE html

\* String.prototype.toLowerCase on a tag name
ToLowerCase(tag) ==
    CASE tag = "!DOCTYPE" -> "!doctype"
      [] tag = "HTML" -> "html"
      [] OTHER -> tag

\* lines 104-105: html.trim().toLowerCase() starts with "<!doctype" or "<html"
IsDocument(html) ==
    /\ TrimStart(html) # <<>>
    /\ ToLowerCase(Head(TrimStart(html)).tag) \in {"!doctype", "html"}

\* a variant that wraps whatever it is given
processHtmlForEmail_AlwaysWraps(html) ==
    <<Node("!DOCTYPE", <<"html", "PUBLIC">>), Node("html", <<"xmlns">>),
      Node("head", <<>>),
      Node("meta", <<"charset=UTF-8">>), Node("meta", <<"viewport">>),
      Node("meta", <<"x-apple-disable-message-reformatting">>),
      Node("meta", <<"X-UA-Compatible">>),
      Node("title", <<>>), Node("/title", <<>>), Node("/head", <<>>),
      Node("body", <<"style=margin:0;padding:0;">>)>>
    \o html \o <<Node("/body", <<>>), Node("/html", <<>>)>>

\* processHtmlForEmail, lines 103-121: a fragment is wrapped in a document
processHtmlForEmail(html) ==
    IF ~IsDocument(html)
    THEN <<Node("!DOCTYPE", <<"html", "PUBLIC">>), Node("html", <<"xmlns">>),
           Node("head", <<>>),
           Node("meta", <<"charset=UTF-8">>), Node("meta", <<"viewport">>),
           Node("meta", <<"x-apple-disable-message-reformatting">>),
           Node("meta", <<"X-UA-Compatible">>),
           Node("title", <<>>), Node("/title", <<>>), Node("/head", <<>>),
           Node("body", <<"style=margin:0;padding:0;">>)>>
         \o html \o <<Node("/body", <<>>), Node("/html", <<>>)>>
    ELSE html

\* optimizeHtmlForEmail, lines 144-151.  An attribute list is a sequence of
\* tokens: attributes (cellpadding=4, src=a.png) and the declarations of a
\* style attribute (line-height:1.5;).  juice (line 126) inlines the rules of
\* <style> elements; the templates of the model have none, so it returns its
\* input.
juice(html) == html

IsCellpadding(token) == token \in {"cellpadding=0", "cellpadding=4"}

\* line 146: <table not followed by cellpadding inside the tag
FixTable(node) ==
    IF node.tag = "table" /\ ~(\E i \in 1..Len(node.attrs) : IsCellpadding(node.attrs[i]))
    THEN Node("table", <<"cellpadding=0", "cellspacing=0", "border=0">> \o node.attrs)
    ELSE node

ImgStyle == "style=display:block; border:0; outline:none; text-decoration:none;"

\* line 147: every <img ...> gets the style attribute appended
FixImg(node) ==
    IF node.tag = "img" THEN Node("img", node.attrs \o <<ImgStyle>>) ELSE node

\* line 148: line-height:<number>; (a number without unit)
IsUnitlessLineHeight(token) == token \in {"line-height:1.5;", "line-height:2;"}

\* lines 149-151: box-shadow, text-shadow and transform declarations
IsDroppedDeclaration(token) ==
    token \in {"box-shadow:0 0 2px #000;", "text-shadow:1px 1px #000;",
               "transform:rotate(3deg);"}

\* lines 148-151 on the tokens of one tag; transform:[^;]+; also matches the
\* end of text-transform:uppercase; and leaves "text-"
RECURSIVE FixDeclarations(_)
FixDeclarations(decls) ==
    IF decls = <<>> THEN <<>>
    ELSE LET t == Head(decls)
         IN (IF IsUnitlessLineHeight(t) THEN <<t, "mso-line-height-rule:exactly;">>
             ELSE IF IsDroppedDeclaration(t) THEN <<>>
             ELSE IF t = "text-transform:uppercase;" THEN <<"text-">>
             ELSE <<t>>)
            \o FixDeclarations(Tail(decls))

FixNode(node) ==
    LET n == FixImg(FixTable(node))
    IN Node(n.tag, FixDeclarations(n.attrs))

optimizeHtmlForEmail(html) ==
    [i \in 1..Len(juice(html)) |-> FixNode(juice(html)[i])]

\* createHtmlEmail, lines 83-93: emailParts, the lines of the message, empty
\* entries removed by filter(Boolean); the message is kept as these lines, the
\* form in which the provider reads it after decoding `raw`
Line(name, value) == [name |-> name, value |-> value]
EmptyLine == Line("", <<>>)

RECURSIVE FilterBoolean(_)
FilterBoolean(parts) ==
    IF parts = <<>> THEN <<>>
    ELSE IF Head(parts).name = "" /\ Head(parts).value = <<>>
         THEN FilterBoolean(Tail(parts))
         ELSE <<Head(parts)>> \o FilterBoolean(Tail(parts))

createHtmlEmail(to, subject, htmlBody, fromName, fromEmail, replyTo) ==
    FilterBoolean(
        << Line("To", to),
           Line("From", <<fromName, fromEmail>>),
           Line("Subject", <<subject>>),
           IF IsSome(replyTo) THEN Line("Reply-To", replyTo) ELSE EmptyLine,
           Line("MIME-Version", <<"1.0">>),
           Line("Content-Type", <<"text/html; charset=UTF-8">>),
           Line("Content-Transfer-Encoding", <<"7bit">>),
           EmptyLine,
           Line("", htmlBody) >>)

\* emailParts.join("\r\n"), line 95: the text as a sequence of units, a line
\* with content being one unit, an empty line none, and CRLF a unit of its own
CRLF == Line("\r\n", <<>>)

RECURSIVE JoinCRLF(_)
JoinCRLF(parts) ==
    IF parts = <<>> THEN <<>>
    ELSE (IF Head(parts) = EmptyLine THEN <<>> ELSE <<Head(parts)>>)
         \o (IF Tail(parts) = <<>> THEN <<>> ELSE <<CRLF>> \o JoinCRLF(Tail(parts)))

\* Buffer.toString("base64"), line 96: bytes (0..255) to the characters of the
\* base64 alphabet, three bytes giving four characters, "=" padding the end
Base64Alphabet ==
    << "A", "B", "C", "D", "E", "F", "G", "H", "I", "J", "K", "L", "M",
       "N", "O", "P", "Q", "R", "S", "T", "U", "V", "W", "X", "Y", "Z",
       "a", "b", "c", "d", "e", "f", "g", "h", "i", "j", "k", "l", "m",
       "n", "o", "p", "q", "r", "s", "t", "u", "v", "w", "x", "y", "z",
       "0", "1", "2", "3", "4", "5", "6", "7", "8", "9", "+", "/" >>

Base64Char(v) == Base64Alphabet[v + 1]

RECURSIVE toBase64(_)
toBase64(bytes) ==
    IF bytes = <<>> THEN <<>>
    ELSE IF Len(bytes) = 1
    THEN << Base64Char(bytes[1] \div 4), Base64Char((bytes[1] % 4) * 16), "=", "=" >>
    ELSE IF Len(bytes) = 2
    THEN << Base64Char(bytes[1] \div 4),
            Base64Char((bytes[1] % 4) * 16 + bytes[2] \div 16),
            Base64Char((bytes[2] % 16) * 4), "=" >>
    ELSE << Base64Char(bytes[1] \div 4),
            Base64Char((bytes[1] % 4) * 16 + bytes[2] \div 16),
            Base64Char((bytes[2] % 16) * 4 + bytes[3] \div 64),
            Base64Char(bytes[3] % 64) >>
         \o toBase64(SubSeq(bytes, 4, Len(bytes)))

\* .replace(/\+/g, "-").replace(/\//g, "_"), lines 97-98
ReplaceChar(str, from, to) ==
    [i \in 1..Len(str) |-> IF str[i] = from THEN to ELSE str[i]]

\* .replace(/=+$/, ""), line 99
RECURSIVE StripTrailingPad(_)
StripTrailingPad(str) ==
    IF str # <<>> /\ str[Len(str)] = "="
    THEN StripTrailingPad(SubSeq(str, 1, Len(str) - 1))
    ELSE str

\* lines 95-99: the base64url encoding of the message bytes
Base64Url(bytes) ==
    StripTrailingPad(ReplaceChar(ReplaceChar(toBase64(bytes), "+", "-"), "/", "_"))

\* lines 265-276: the message of call c
EmailMessage(c) ==
    createHtmlEmail(MapEmail(validRecipients[c]),
                    Get(data[c]).subject,
                    Get(finalHtml[c]),
                    SenderName(session[c], Get(data[c])),
                    Get(UserEmail(Get(session[c]))),
                    Get(data[c]).replyTo)

------------------------------------------------------------------------------
\* POST, lines 223-261: token check and pre-flight

\* lines 235-260: the response to a failed users.getProfile
PreflightFailure(e) ==
    IF e.code = 401 \/ Includes(e.message, "invalid_grant")
    THEN Resp(401, "false", "Authentication failed",
              <<"Please re-authenticate with Google to send emails">>, "AUTH_EXPIRED")
    ELSE IF e.code = 403
    THEN Resp(403, "false", "Permission denied",
              <<"Gmail API access denied. Please check your Google account permissions.">>,
              "PERMISSION_DENIED")
    ELSE Resp(500, "false", "Gmail API access failed",
              IF e.message # <<>> THEN e.message ELSE <<"Unknown error">>,
              "GMAIL_API_ERROR")

\* testGmailAccess, lines 40-48: { success: true, ... } or { success: false, error }
GmailTestOk == [success |-> TRUE, error |-> None]
GmailTestFailed(e) == [success |-> FALSE, error |-> Some(e)]

\* a variant that never takes the early return
TokensMissing_Never(t) == FALSE

\* if (!tokens), line 223
TokensMissing(t) == ~IsSome(t)

\* a variant that awaits the tokens alone, not the creation of the row
AfterAcquire_NoWait(c) ==
    /\ pc[c] = "acquire"
    /\ tkpc[c] = "done"
    /\ IF TokensMissing(tokens[c])
       THEN /\ response' = [response EXCEPT ![c] = Some(AuthRequired)]
            /\ pc' = [pc EXCEPT ![c] = "done"]
            /\ UNCHANGED trace
       ELSE /\ pc' = [pc EXCEPT ![c] = "preflight"]
            /\ trace' = Bump(c, "getProfile")
            /\ UNCHANGED response
    /\ UNCHANGED <<chatVars, clock, accounts, emailSends, gmail, issued, session, data,
                   validRecipients, emailSend, tkpc, account, refreshedTokens, tokens,
                   sendError, sendResponse, gmailTest, processedHtml,
                   finalHtml>>

\* Promise.all of line 206 has resolved: both the tokens and the row are there.
\* Without tokens the call returns; with tokens it calls users.getProfile.
AfterAcquire(c) ==
    /\ pc[c] = "acquire"
    /\ tkpc[c] = "done"
    /\ emailSend[c] # 0
    /\ IF TokensMissing(tokens[c])
       THEN /\ response' = [response EXCEPT ![c] = Some(AuthRequired)]
            /\ pc' = [pc EXCEPT ![c] = "done"]
            /\ UNCHANGED trace
       ELSE /\ pc' = [pc EXCEPT ![c] = "preflight"]
            /\ trace' = Bump(c, "getProfile")
            /\ UNCHANGED response
    /\ UNCHANGED <<chatVars, clock, accounts, emailSends, gmail, issued, session, data,
                   validRecipients, emailSend, tkpc, account, refreshedTokens, tokens,
                   sendError, sendResponse, gmailTest, processedHtml,
                   finalHtml>>

\* a variant that goes on to render and send whatever the pre-flight answered
PreflightReply_Ignored(c) ==
    /\ pc[c] = "preflight"
    /\ \/ \E e \in ProviderErrors :
            /\ gmailTest' = [gmailTest EXCEPT ![c] = Some(GmailTestFailed(e))]
            /\ trace' = [trace EXCEPT ![c].profileFailed = @ + 1,
                                      ![c].render = @ + 1, ![c].send = @ + 1]
       \/ /\ gmailTest' = [gmailTest EXCEPT ![c] = Some(GmailTestOk)]
          /\ trace' = [trace EXCEPT ![c].render = @ + 1, ![c].send = @ + 1]
    /\ processedHtml' = [processedHtml EXCEPT ![c] =
                            Some(processHtmlForEmail(Get(data[c]).template))]
    /\ finalHtml' = [finalHtml EXCEPT ![c] =
                        Some(optimizeHtmlForEmail(processHtmlForEmail(Get(data[c]).template)))]
    /\ pc' = [pc EXCEPT ![c] = "sending"]
    /\ UNCHANGED <<chatVars, clock, accounts, emailSends, gmail, issued, session, data,
                   validRecipients, emailSend, tkpc, account, refreshedTokens,
                   sendError, sendResponse, response, tokens>>

\* testGmailAccess resolves (lines 40-48, 233-283).  On failure the call
\* returns; on success the message is rendered and users.messages.send is called.
PreflightReply(c) ==
    /\ pc[c] = "preflight"
    /\ \/ \E e \in ProviderErrors :
            /\ gmailTest' = [gmailTest EXCEPT ![c] = Some(GmailTestFailed(e))]
            /\ response' = [response EXCEPT ![c] = Some(PreflightFailure(e))]
            /\ pc' = [pc EXCEPT ![c] = "done"]
            /\ tokens' = [tokens EXCEPT ![c] = None]
            /\ trace' = Bump(c, "profileFailed")
            /\ UNCHANGED <<processedHtml, finalHtml>>
       \/ /\ gmailTest' = [gmailTest EXCEPT ![c] = Some(GmailTestOk)]
          /\ processedHtml' = [processedHtml EXCEPT ![c] =
                                  Some(processHtmlForEmail(Get(data[c]).template))]
          /\ finalHtml' = [finalHtml EXCEPT ![c] =
                              Some(optimizeHtmlForEmail(
                                      processHtmlForEmail(Get(data[c]).template)))]
          /\ pc' = [pc EXCEPT ![c] = "sending"]
          /\ trace' = [trace EXCEPT ![c].render = @ + 1, ![c].send = @ + 1]
          /\ UNCHANGED <<response, tokens>>
    /\ UNCHANGED <<chatVars, clock, accounts, emailSends, gmail, issued, session, data,
                   validRecipients, emailSend, tkpc, account, refreshedTokens,
                   sendError, sendResponse>>

------------------------------------------------------------------------------
\* POST, lines 278-355: transmission and status reconciliation

\* prisma.emailSend.update({ where: { id }, data }): the fields of data
\* replace those of the row with that id
UpdateRows(rows, id, fields) ==
    [i \in 1..Len(rows) |->
        IF rows[i].id = id
        THEN [f \in DOMAIN rows[i] |->
                 IF f \in DOMAIN fields THEN fields[f] ELSE rows[i][f]]
        ELSE rows[i]]

\* a variant that updates the newest row instead of the row the call created
UpdateTarget_Latest(c) == Len(emailSends)

\* where: { id: emailSend.id }
UpdateTarget(c) == emailSend[c]

\* a variant that stores the thread id as the message id
MarkSent_Swapped(now, res) ==
    [status |-> "SENT", sentAt |-> Some(now),
     metadata |-> Some([messageId |-> res.threadId, threadId |-> res.id])]

\* the data of lines 288-297
MarkSent(now, res) ==
    [status |-> "SENT", sentAt |-> Some(now),
     metadata |-> Some([messageId |-> res.id, threadId |-> res.threadId])]

\* the data of lines 313-316
MarkFailed(e) == [status |-> "FAILED", errorMessage |-> Some(e.message)]

\* lines 300-307
Success(id, res, rcpts) ==
    [status |-> 200, success |-> "true", error |-> "", details |-> <<>>, code |-> "",
     emailSendId |-> id, messageId |-> res.id, threadId |-> res.threadId,
     recipients |-> Len(rcpts)]

\* lines 348-354: the outer catch
SendFailed(e) == Resp(500, "false", "Failed to send email", e.message, "SEND_FAILED")

\* lines 319-345: the response to a failed send
SendFailure(e) ==
    IF e.code = 401 \/ Includes(e.message, "invalid_grant")
    THEN Resp(401, "false", "Authentication failed", <<>>, "AUTH_EXPIRED")
    ELSE IF e.code = 403
    THEN Resp(403, "false", "Permission denied", <<>>, "PERMISSION_DENIED")
    ELSE IF e.code = 429
    THEN Resp(429, "false", "Rate limit exceeded", <<>>, "RATE_LIMIT")
    ELSE SendFailed(e)

\* users.messages.send resolves or rejects (lines 280-283)
SendReply(c) ==
    /\ pc[c] = "sending"
    /\ \/ LET res == [id |-> Len(gmail) + 1, threadId |-> Len(gmail) + 101]
          IN /\ gmail' = Append(gmail, [id |-> res.id, threadId |-> res.threadId,
                                        call |-> c, raw |-> EmailMessage(c)])
             /\ sendResponse' = [sendResponse EXCEPT ![c] = Some(res)]
             /\ pc' = [pc EXCEPT ![c] = "markSent"]
             /\ trace' = Bump(c, "accepted")
             /\ UNCHANGED sendError
       \/ \E e \in ProviderErrors :
            /\ sendError' = [sendError EXCEPT ![c] = Some(e)]
            /\ pc' = [pc EXCEPT ![c] = "markFailed"]
            /\ UNCHANGED <<gmail, sendResponse, trace>>
    /\ UNCHANGED <<chatVars, clock, accounts, emailSends, issued, session, data,
                   validRecipients, emailSend, tkpc, account, refreshedTokens, tokens,
                   gmailTest, processedHtml,
                   finalHtml, response>>

\* lines 286-307: the update to SENT is applied and the call returns, or the
\* update rejects and control passes to the catch of line 309
UpdateSent(c) ==
    /\ pc[c] = "markSent"
    /\ \/ /\ emailSends' = UpdateRows(emailSends, UpdateTarget(c),
                                      MarkSent(clock, Get(sendResponse[c])))
          /\ response' = [response EXCEPT ![c] =
                             Some(Success(emailSend[c], Get(sendResponse[c]),
                                          validRecipients[c]))]
          /\ pc' = [pc EXCEPT ![c] = "done"]
          /\ tokens' = [tokens EXCEPT ![c] = None]
          /\ trace' = Bump(c, "statusUpdate")
          /\ UNCHANGED sendError
       \/ /\ sendError' = [sendError EXCEPT ![c] = Some(DbError)]
          /\ pc' = [pc EXCEPT ![c] = "markFailed"]
          /\ UNCHANGED <<emailSends, response, trace, tokens>>
    /\ UNCHANGED <<chatVars, clock, accounts, gmail, issued, session, data, validRecipients,
                   emailSend, tkpc, account, refreshedTokens, sendResponse, gmailTest, processedHtml,
                   finalHtml>>

\* lines 309-355: the update to FAILED is applied and the error is mapped to a
\* response, or the update rejects and the outer catch answers
UpdateFailed(c) ==
    /\ pc[c] = "markFailed"
    /\ \/ /\ emailSends' = UpdateRows(emailSends, UpdateTarget(c),
                                      MarkFailed(Get(sendError[c])))
          /\ response' = [response EXCEPT ![c] = Some(SendFailure(Get(sendError[c])))]
          /\ trace' = Bump(c, "statusUpdate")
       \/ /\ response' = [response EXCEPT ![c] = Some(SendFailed(DbError))]
          /\ UNCHANGED <<emailSends, trace>>
    /\ pc' = [pc EXCEPT ![c] = "done"]
    /\ tokens' = [tokens EXCEPT ![c] = None]
    /\ UNCHANGED <<chatVars, clock, accounts, gmail, issued, session, data, validRecipients,
                   emailSend, tkpc, account, refreshedTokens, sendError,
                   sendResponse, gmailTest, processedHtml,
                   finalHtml>>

------------------------------------------------------------------------------

Next ==
    \/ Tick
    \/ \E c \in Calls :
         \/ Receive(c)
         \/ CreateRecord(c)
         \/ LoadAccount(c)
         \/ RefreshReply(c)
         \/ PersistTokens(c)
         \/ AfterAcquire(c)
         \/ PreflightReply(c)
         \/ SendReply(c)
         \/ UpdateSent(c)
         \/ UpdateFailed(c)

Spec == Init /\ [][Next]_vars

\* getUserTokens on its own: the exported function called for a user directly
\* (as by testGmailAccess, src/lib/auth.ts line 86), concurrently
CallGetUserTokens(c) ==
    /\ pc[c] = "idle"
    /\ \E u \in Users :
         session' = [session EXCEPT ![c] = Some(u)]
    /\ pc' = [pc EXCEPT ![c] = "getUserTokens"]
    /\ tkpc' = [tkpc EXCEPT ![c] = "load"]
    /\ UNCHANGED <<chatVars, clock, accounts, emailSends, gmail, issued, data, validRecipients,
                   emailSend, account, refreshedTokens, tokens, sendError,
                   sendResponse, gmailTest, processedHtml,
                   finalHtml, response, trace>>

NextTokens ==
    \/ Tick
    \/ \E c \in Calls :
         \/ CallGetUserTokens(c)
         \/ LoadAccount(c)
         \/ RefreshReply(c)
         \/ PersistTokens(c)

TokenSpec == TokenInit /\ [][NextTokens]_vars

\* The renderer on its own: a template is rendered as by lines 265-266, and
\* the output is rendered again as the template of a further message

\* number of times a call renders
MaxRenders == 2

Templates ==
    { Fragment,
      <<Node("img", <<"src=a.png">>)>>,
      <<Node("img", <<"src=a.png", ImgStyle>>)>>,
      <<Node("table", <<"width=600">>), Node("/table", <<>>)>>,
      <<Node("table", <<"cellpadding=4">>), Node("/table", <<>>)>>,
      <<Node("p", <<"style=", "line-height:1.5;">>), Node("/p", <<>>)>>,
      <<Node("p", <<"style=", "line-height:2;", "mso-line-height-rule:exactly;">>),
        Node("/p", <<>>)>>,
      <<Node("p", <<"style=", "line-height:20px;", "box-shadow:0 0 2px #000;",
                    "text-transform:uppercase;">>), Node("/p", <<>>)>>,
      <<Node("!doctype", <<"html">>), Node("html", <<>>), Node("body", <<>>),
        Node("div", <<"style=", "transform:rotate(3deg);">>), Node("/div", <<>>),
        Node("/body", <<>>), Node("/html", <<>>)>>,
      <<Node("#ws", <<>>), Node("HTML", <<>>), Node("body", <<>>),
        Node("#text", <<"x">>), Node("/body", <<>>), Node("/html", <<>>)>>,
      <<Node("#text", <<"x">>), Node("html", <<>>), Node("/html", <<>>)>> }

RenderTemplate(c) ==
    /\ pc[c] = "idle"
    /\ \E t \in Templates :
         /\ data' = [data EXCEPT ![c] = Some(Req("c1", "Hi", t, Some(ValidList), None))]
         /\ processedHtml' = [processedHtml EXCEPT ![c] = Some(processHtmlForEmail(t))]
         /\ finalHtml' = [finalHtml EXCEPT ![c] =
                             Some(optimizeHtmlForEmail(processHtmlForEmail(t)))]
    /\ pc' = [pc EXCEPT ![c] = "rendered"]
    /\ trace' = Bump(c, "render")
    /\ UNCHANGED <<chatVars, clock, accounts, emailSends, gmail, issued, session, validRecipients,
                   emailSend, tkpc, account, refreshedTokens, tokens, gmailTest,
                   sendError, sendResponse, response>>

\* the rendered output is the template of the next rendering
RenderOutput(c) ==
    /\ pc[c] = "rendered"
    /\ trace[c].render < MaxRenders
    /\ processedHtml' = [processedHtml EXCEPT ![c] =
                            Some(processHtmlForEmail(Get(finalHtml[c])))]
    /\ finalHtml' = [finalHtml EXCEPT ![c] =
                        Some(optimizeHtmlForEmail(processHtmlForEmail(Get(finalHtml[c]))))]
    /\ trace' = Bump(c, "render")
    /\ UNCHANGED <<chatVars, clock, accounts, emailSends, gmail, issued, pc, session, data,
                   validRecipients, emailSend, tkpc, account, refreshedTokens, tokens,
                   gmailTest, sendError, sendResponse, response>>

\* the normalized document is normalized once more
NormalizeAgain(c) ==
    /\ pc[c] = "rendered"
    /\ processedHtml' = [processedHtml EXCEPT ![c] =
                            Some(processHtmlForEmail(Get(processedHtml[c])))]
    /\ pc' = [pc EXCEPT ![c] = "normalized"]
    /\ UNCHANGED <<chatVars, clock, accounts, emailSends, gmail, issued, session, data,
                   validRecipients, emailSend, tkpc, account, refreshedTokens, tokens,
                   gmailTest, finalHtml, sendError, sendResponse, response, trace>>

NextRender ==
    \E c \in Calls :
       \/ RenderTemplate(c)
       \/ RenderOutput(c)
       \/ NormalizeAgain(c)

RenderSpec == Init /\ [][NextRender]_vars

------------------------------------------------------------------------------
\* ChatSessionManager (src/app/api/email-styler/route.ts, lines 113-371)

Has(map, id) == IsSome(map[id])
Keys(map) == { id \in AllSessionIds : Has(map, id) }

\* the three static maps as one value
Maps(s, h, m) == [sessions |-> s, sessionHistory |-> h, sessionMetadata |-> m]

ChatMessage(role, text) == [role |-> role, text |-> text]

\* "Keep history manageable (last 20 messages)"
HistoryLimit == 20

\* default maxAge of clearOldSessions, in ms
MaxAge == 24 * 60 * 60 * 1000

\* the keys POST adds to userPreferences (templatePreferences is {})
PostPreferences == {"lastTemplateType", "lastComplexity"}

clearSession(st, id) ==
    Maps([st.sessions EXCEPT ![id] = None],
         [st.sessionHistory EXCEPT ![id] = None],
         [st.sessionMetadata EXCEPT ![id] = None])

\* the ids clearOldSessions clears at time now
OldSessions(st, now) ==
    { id \in Keys(st.sessionMetadata) :
         now - Get(st.sessionMetadata[id]).lastActivity > MaxAge }

clearOldSessions(st, now) ==
    Maps([id \in AllSessionIds |->
             IF id \in OldSessions(st, now) THEN None ELSE st.sessions[id]],
         [id \in AllSessionIds |->
             IF id \in OldSessions(st, now) THEN None ELSE st.sessionHistory[id]],
         [id \in AllSessionIds |->
             IF id \in OldSessions(st, now) THEN None ELSE st.sessionMetadata[id]])

\* the maps after getOrCreateSession(genAI, id) at time now; the chat session
\* is the history startChat was given
getOrCreateSession(st, id, now) ==
    LET created == ~Has(st.sessions, id)
        history == IF Has(st.sessionHistory, id) THEN Get(st.sessionHistory[id]) ELSE <<>>
        s1 == IF created
              THEN [st.sessions EXCEPT ![id] = Some([history |-> history])]
              ELSE st.sessions
        h1 == IF created /\ ~Has(st.sessionHistory, id)
              THEN [st.sessionHistory EXCEPT ![id] = Some(<<>>)]
              ELSE st.sessionHistory
        m1 == IF created /\ ~Has(st.sessionMetadata, id)
              THEN [st.sessionMetadata EXCEPT ![id] =
                       Some([createdAt |-> now, lastActivity |-> now,
                             messageCount |-> 0, userPreferences |-> {}])]
              ELSE st.sessionMetadata
    IN Maps(s1, h1,
            IF Has(m1, id)
            THEN [m1 EXCEPT ![id] =
                     Some([Get(m1[id]) EXCEPT !.lastActivity = now,
                                              !.messageCount = @ + 1])]
            ELSE m1)

\* history.splice(0, history.length - 20) when longer than 20
KeepLast(history) ==
    IF Len(history) > HistoryLimit
    THEN SubSeq(history, Len(history) - HistoryLimit + 1, Len(history))
    ELSE history

\* the maps after updateSessionHistory(id, userMessage, aiResponse, metadata)
updateSessionHistory(st, id, userMessage, aiResponse, userPreferences) ==
    LET history == IF Has(st.sessionHistory, id) THEN Get(st.sessionHistory[id]) ELSE <<>>
        pushed == history \o <<ChatMessage("user", userMessage),
                               ChatMessage("model", aiResponse)>>
    IN Maps(st.sessions,
            [st.sessionHistory EXCEPT ![id] = Some(KeepLast(pushed))],
            IF Has(st.sessionMetadata, id)
            THEN [st.sessionMetadata EXCEPT ![id] =
                     Some([Get(st.sessionMetadata[id]) EXCEPT
                              !.userPreferences = @ \cup userPreferences])]
            ELSE st.sessionMetadata)

CurrentMaps == Maps(sessions, sessionHistory, sessionMetadata)

SetMaps(st) ==
    /\ sessions' = st.sessions
    /\ sessionHistory' = st.sessionHistory
    /\ sessionMetadata' = st.sessionMetadata

\* POST, lines 717-770: a message arrives.  Without text it is answered 400;
\* otherwise old sessions are cleared, the session is got or created, and the
\* handler awaits the embeddings and the model's reply.
StylerPost(c) ==
    /\ stylerCall[c].pc = "idle"
    /\ \E message \in {"", "make it blue"}, sessionId \in {None} \cup {Some(id) : id \in ClientSessionIds},
          maintainMemory \in BOOLEAN, generated \in GeneratedSessionIds :
         IF message = ""
         THEN /\ stylerCall' = [stylerCall EXCEPT ![c] =
                                   [IdleStyler EXCEPT !.pc = "done", !.status = 400]]
              /\ UNCHANGED <<sessions, sessionHistory, sessionMetadata, cleared>>
         ELSE LET id == IF IsSome(sessionId) THEN Get(sessionId) ELSE generated
                  swept == clearOldSessions(CurrentMaps, clock)
              IN /\ SetMaps(getOrCreateSession(swept, id, clock))
                 /\ cleared' = (cleared \cup OldSessions(CurrentMaps, clock)) \ {id}
                 /\ stylerCall' = [stylerCall EXCEPT ![c] =
                                      [pc |-> "awaiting", currentSessionId |-> id,
                                       message |-> message,
                                       maintainMemory |-> maintainMemory, status |-> 0]]
    /\ UNCHANGED <<clock, accounts, emailSends, gmail, issued, callVars>>

\* POST, lines 868-896: the model replies, or the call throws.  With
\* maintainMemory the reply is written to the session's history.
StylerReply(c) ==
    /\ stylerCall[c].pc = "awaiting"
    /\ \/ /\ stylerCall' = [stylerCall EXCEPT ![c].pc = "done", ![c].status = 500]
          /\ UNCHANGED <<sessions, sessionHistory, sessionMetadata>>
       \/ /\ stylerCall' = [stylerCall EXCEPT ![c].pc = "done", ![c].status = 200]
          /\ IF stylerCall[c].maintainMemory
             THEN SetMaps(updateSessionHistory(CurrentMaps, stylerCall[c].currentSessionId,
                                               stylerCall[c].message, "<html>",
                                               PostPreferences))
             ELSE UNCHANGED <<sessions, sessionHistory, sessionMetadata>>
    /\ UNCHANGED <<clock, accounts, emailSends, gmail, issued, callVars, cleared>>

\* DELETE ?sessionId=id, lines 1030-1038
StylerDelete ==
    /\ \E id \in AllSessionIds :
         /\ SetMaps(clearSession(CurrentMaps, id))
         /\ cleared' = cleared \cup {id}
    /\ UNCHANGED <<clock, accounts, emailSends, gmail, issued, callVars, stylerCall>>

\* DELETE ?clearAll=true, lines 1016-1027
StylerDeleteAll ==
    /\ SetMaps(Maps(EmptyMap, EmptyMap, EmptyMap))
    /\ UNCHANGED <<clock, accounts, emailSends, gmail, issued, callVars, stylerCall,
                   cleared>>

NextSessions ==
    \/ StylerDelete
    \/ StylerDeleteAll
    \/ \E c \in Calls :
         \/ StylerPost(c)
         \/ StylerReply(c)

SessionSpec == Init /\ [][NextSessions]_vars

------------------------------------------------------------------------------
\* Properties

Returned(c) == pc[c] = "done"
Created(c) == emailSend[c] # 0
RowOf(c) == emailSends[emailSend[c]]
Terminal == {"SENT", "FAILED"}

\* C1: whenever a POST that created a SendRecord has returned, that record is
\* SENT or FAILED; no returned call leaves its record PENDING.
C1_ReturnedRecordIsTerminal ==
    \A c \in Calls : (Returned(c) /\ Created(c)) => RowOf(c).status \in Terminal

\* C2: the status of a SendRecord only ever changes from PENDING to SENT or
\* from PENDING to FAILED (also under concurrent calls), and rows are never
\* removed: a terminal record keeps its status.
C2_StatusMonotonic ==
    [][ /\ Len(emailSends') >= Len(emailSends)
        /\ \A i \in 1..Len(emailSends) :
              emailSends'[i].status # emailSends[i].status
                 => /\ emailSends[i].status = "PENDING"
                    /\ emailSends'[i].status \in Terminal ]_vars

\* C2 witness: two calls have returned, one left its record SENT and the other
\* left its record FAILED.
C2_Witness ==
    \E c1, c2 \in Calls :
       /\ Returned(c1) /\ Created(c1) /\ RowOf(c1).status = "SENT"
       /\ Returned(c2) /\ Created(c2) /\ RowOf(c2).status = "FAILED"

\* the request is one that validation is meant to reject
FailsValidation(d) ==
    \/ d.subject = ""
    \/ d.template = <<>>
    \/ d.chatId = ""
    \/ ~IsSome(d.recipients)
    \/ \A i \in 1..Len(Get(d.recipients)) :
          LET r == Get(d.recipients)[i]
          IN ~(IsSome(r.email) /\ Includes(Get(r.email), "@")
                               /\ Includes(Get(r.email), "."))

\* the call created no record, looked up or refreshed no token and made no
\* provider call
Untouched(c) == trace[c] = NoTrace /\ ~Created(c)

\* C3 as stated: every request that fails validation is answered 400 and leaves
\* the system unchanged.
C3_InvalidRequestIs400 ==
    \A c \in Calls :
       (Returned(c) /\ FailsValidation(Get(data[c])))
          => (Get(response[c]).status = 400 /\ Untouched(c))

\* C3 amended: a request that fails validation leaves the system unchanged (no
\* record, no token lookup or refresh, no provider call); when the caller is
\* authenticated it is answered 400 if a required field is missing, and 400 for
\* zero valid recipients provided the chat lookup finds the caller's chat
\* (otherwise the answer is 404, or 401 without a session).
C3_InvalidRequestRejected ==
    \A c \in Calls :
       (Returned(c) /\ FailsValidation(Get(data[c])))
          => LET d == Get(data[c])
                 missing == d.subject = "" \/ d.template = <<>> \/ d.chatId = ""
                 owned == d.chatId \in ChatIds /\ ChatOwner(d.chatId) = Get(session[c])
             IN /\ Untouched(c)
                /\ Get(response[c]).status \in {400, 401, 404}
                /\ (IsSome(session[c]) /\ missing) => Get(response[c]).status = 400
                /\ (IsSome(session[c]) /\ ~missing /\ owned)
                      => Get(response[c]).status = 400
                /\ (IsSome(session[c]) /\ ~missing /\ ~owned)
                      => Get(response[c]).status = 404
                /\ ~IsSome(session[c]) => Get(response[c]).status = 401

\* C3 witness: a request whose recipients are all invalid was answered 400
\* while another call has created a record.
C3_Witness ==
    \E c, o \in Calls :
       /\ Returned(c)
       /\ Get(data[c]).recipients = Some(InvalidList)
       /\ Get(response[c]) = NoValidRecipients
       /\ Untouched(c)
       /\ Created(o)

\* the call got past the checks of lines 159-203
PassedValidation(c) ==
    \/ pc[c] \in {"acquire", "preflight", "sending", "markSent", "markFailed"}
    \/ Returned(c) /\ Created(c)

\* the indices of the recipients that carry an email with both "@" and "."
KeptIndices(rs) ==
    {i \in 1..Len(rs) :
        /\ IsSome(rs[i].email)
        /\ \E k \in 1..Len(Get(rs[i].email)) : Get(rs[i].email)[k] = "@"
        /\ \E k \in 1..Len(Get(rs[i].email)) : Get(rs[i].email)[k] = "."}

\* the k-th smallest element of a set of indices
KthIndex(idx, k) == CHOOSE i \in idx : Cardinality({j \in idx : j <= i}) = k

\* list is rs restricted to the kept indices, in the order of rs
IsFilteredFrom(list, rs) ==
    /\ Len(list) = Cardinality(KeptIndices(rs))
    /\ \A k \in 1..Len(list) : list[k] = rs[KthIndex(KeptIndices(rs), k)]

ToLine(raw) == raw[1]

\* C4: a call that passed validation works with exactly the recipients whose
\* email contains "@" and ".", in their original order; that same list is the
\* recipients of its SendRecord, the To header of the message it transmits and
\* the count of its success response.
C4_RecipientFiltering ==
    \A c \in Calls :
       PassedValidation(c) =>
          LET rs == Get(Get(data[c]).recipients)
          IN /\ IsFilteredFrom(validRecipients[c], rs)
             /\ validRecipients[c] # <<>>
             /\ Created(c) => RowOf(c).recipients = validRecipients[c]
             /\ \A m \in 1..Len(gmail) :
                   gmail[m].call = c =>
                      /\ ToLine(gmail[m].raw).name = "To"
                      /\ Len(ToLine(gmail[m].raw).value) = Len(validRecipients[c])
                      /\ \A k \in 1..Len(validRecipients[c]) :
                            ToLine(gmail[m].raw).value[k] = Get(validRecipients[c][k].email)
             /\ (Returned(c) /\ Get(response[c]).success = "true")
                   => Get(response[c]).recipients = Cardinality(KeptIndices(rs))

\* C4 witness: the request with recipients a@b.c, no, c@d.o was sent to exactly
\* a@b.c, c@d.o, recorded with these two and answered with the count 2.
C4_Witness ==
    \E c \in Calls :
       /\ Returned(c)
       /\ Get(data[c]).recipients = Some(<<Rcpt(E_ab), Rcpt(E_plain), Rcpt(E_cd)>>)
       /\ Get(response[c]).success = "true"
       /\ Get(response[c]).recipients = 2
       /\ RowOf(c).recipients = <<Rcpt(E_ab), Rcpt(E_cd)>>
       /\ \E m \in 1..Len(gmail) :
             gmail[m].call = c /\ ToLine(gmail[m].raw).value = <<E_ab, E_cd>>

\* C5: a call whose getUserTokens returned no token never calls the provider's
\* identity endpoint nor its send endpoint.
C5_NoTransportWithoutToken ==
    \A c \in Calls :
       trace[c].noToken > 0 =>
          /\ trace[c].getProfile = 0
          /\ trace[c].send = 0
          /\ pc[c] \in {"acquire", "done"}

\* C5 witness: a call has returned after its token refresh failed, having made
\* no transport call.
C5_Witness ==
    \E c \in Calls :
       /\ Returned(c)
       /\ trace[c].noToken = 1
       /\ trace[c].refresh = 1
       /\ trace[c].getProfile = 0 /\ trace[c].send = 0

\* C6: when the grant has a refresh token and the required scope but the
\* refresh call fails, the call answers code AuthExpired with HTTP 401.
C6_RefreshFailureIsAuthExpired ==
    \A c \in Calls :
       (Returned(c) /\ trace[c].refresh > 0 /\ trace[c].noToken > 0)
          => /\ Get(response[c]).code = "AUTH_EXPIRED"
             /\ Get(response[c]).status = 401

\* C7: a call whose pre-flight identity call failed never renders and never
\* calls the provider's send endpoint; rendering and transmission happen only
\* after one successful pre-flight.
C7_NoRenderAfterFailedPreflight ==
    \A c \in Calls :
       /\ trace[c].profileFailed > 0
             => (trace[c].render = 0 /\ trace[c].send = 0 /\ trace[c].accepted = 0)
       /\ (trace[c].render > 0 \/ trace[c].send > 0)
             => (trace[c].getProfile = 1 /\ trace[c].profileFailed = 0)

\* C7 witness: one call returned after a 403 pre-flight without rendering,
\* another rendered and transmitted after a successful pre-flight.
C7_Witness ==
    \E c, o \in Calls :
       /\ Returned(c)
       /\ trace[c].profileFailed = 1
       /\ Get(response[c]).code = "PERMISSION_DENIED"
       /\ trace[c].render = 0
       /\ trace[o].render = 1 /\ trace[o].send = 1 /\ trace[o].getProfile = 1

\* the message the provider accepted from call c, if any
AcceptedFrom(c) == {m \in 1..Len(gmail) : gmail[m].call = c}

\* C8: a SENT record has sentAt set and holds in metadata the message id and
\* thread id the provider returned for the transmission of the call that
\* created it; a success response carries that record's id and that message
\* id; and a call whose send the provider accepted and whose status write was
\* applied ends with its record SENT and a success response.
C8_SentRecordMatchesProvider ==
    \A c \in Calls :
       Created(c) =>
          /\ RowOf(c).status = "SENT" =>
                /\ IsSome(RowOf(c).sentAt)
                /\ IsSome(RowOf(c).metadata)
                /\ \E m \in AcceptedFrom(c) :
                      /\ Get(RowOf(c).metadata).messageId = gmail[m].id
                      /\ Get(RowOf(c).metadata).threadId = gmail[m].threadId
          /\ (Returned(c) /\ Get(response[c]).success = "true") =>
                /\ RowOf(c).status = "SENT"
                /\ RowOf(c).id = emailSend[c]
                /\ Get(response[c]).emailSendId = RowOf(c).id
                /\ \E m \in AcceptedFrom(c) :
                      /\ Get(response[c]).messageId = gmail[m].id
                      /\ Get(response[c]).threadId = gmail[m].threadId
                      /\ Get(RowOf(c).metadata).messageId = gmail[m].id
          /\ (Returned(c) /\ trace[c].accepted = 1 /\ ~IsSome(sendError[c])) =>
                /\ RowOf(c).status = "SENT"
                /\ Get(response[c]).success = "true"

\* C8 witness: a call has returned success for a message the provider accepted
\* as its second message, and its record is SENT with that message's id.
C8_Witness ==
    \E c \in Calls :
       /\ Returned(c)
       /\ Get(response[c]).success = "true"
       /\ Get(response[c]).messageId = 2
       /\ RowOf(c).status = "SENT"
       /\ Get(RowOf(c).metadata).messageId = 2
       /\ Get(RowOf(c).metadata).threadId = 102

\* C9: every call that passes validation creates its own new SendRecord (ids
\* are never reused, one row per such call), a row is only ever changed by the
\* call that created it, and every accepted transmission is a message of its
\* own at the provider: two calls with the same input give two records and,
\* when both sends are accepted, two provider messages.
C9_NotIdempotent ==
    /\ [](/\ \A c1, c2 \in Calls :
                (Created(c1) /\ Created(c2) /\ c1 # c2) => emailSend[c1] # emailSend[c2]
          /\ \A i, j \in 1..Len(emailSends) :
                emailSends[i].id = emailSends[j].id => i = j
          /\ Len(emailSends) = Cardinality({c \in Calls : Created(c)})
          /\ Len(gmail) = Cardinality({c \in Calls : trace[c].accepted = 1})
          /\ \A c \in Calls : Cardinality(AcceptedFrom(c)) = trace[c].accepted)
    /\ [][\A i \in 1..Len(emailSends) :
             emailSends'[i] # emailSends[i]
                => \E c \in Calls : emailSend[c] = i /\ pc'[c] # pc[c]]_vars

\* C9 witness: two calls with identical session and input have both returned
\* success; there are two records and two provider messages.
C9_Witness ==
    \E c1, c2 \in Calls :
       /\ c1 # c2
       /\ session[c1] = session[c2] /\ data[c1] = data[c2]
       /\ Returned(c1) /\ Returned(c2)
       /\ Get(response[c1]).success = "true" /\ Get(response[c2]).success = "true"
       /\ emailSend[c1] # emailSend[c2]
       /\ Len(emailSends) = 2
       /\ Len(gmail) = 2

\* C10: when the grant loaded by getUserTokens has a refresh token and the
\* required scope and now < expiresAt - 5 minutes, the call makes no provider
\* call, returns the stored access token and leaves the stored grants as they
\* are.
C10_ValidTokenIsReused ==
    [][\A c \in Calls :
          (tkpc[c] = "load" /\ tkpc'[c] # "load") =>
             LET row == accounts[Get(session[c])]
             IN (/\ IsSome(row)
                 /\ Get(row).refresh_token # NoToken
                 /\ \E i \in 1..Len(Get(row).scope) :
                       Get(row).scope[i] \in {GmailSend, GmailCompose}
                 /\ clock < Get(row).expires_at * 1000 - 300000)
                => /\ tkpc'[c] = "done"
                   /\ IsSome(tokens'[c])
                   /\ Get(tokens'[c]).accessToken = Get(row).access_token
                   /\ accounts' = accounts
                   /\ issued' = issued
                   /\ trace'[c].refresh = 0
                   /\ trace'[c].accountUpdate = 0]_vars

\* C10 witness: a getUserTokens call got the stored access token of a grant that expires in
\* 500 s at time 100 s, without a refresh, the grant being as it was.
C10_Witness ==
    \E c \in Calls :
       /\ tkpc[c] = "done"
       /\ tokens[c] = Some(Tokens(11, 12))
       /\ trace[c].findAccount = 1
       /\ trace[c].refresh = 0
       /\ accounts[Get(session[c])] = Some(Grant(11, 12, 500, <<"openid", GmailCompose>>))

------------------------------------------------------------------------------
\* Token lifecycle (checked under TokenSpec)

\* the grant has a refresh token and one of the required scopes
Refreshable(row) ==
    /\ IsSome(row)
    /\ Get(row).refresh_token # NoToken
    /\ \E i \in 1..Len(Get(row).scope) : Get(row).scope[i] \in {GmailSend, GmailCompose}

\* expiresAt is missing, in the past or within the five minutes of skew
Expiring(row, now) ==
    \/ Get(row).expires_at = 0
    \/ now >= Get(row).expires_at * 1000 - 300000

\* a getUserTokens call loads a refreshable, expiring grant: it starts one
\* refresh call; no step of the call starts another
OneRefreshPerCall(c) ==
    /\ (tkpc[c] = "load" /\ tkpc'[c] # "load"
           /\ Refreshable(accounts[Get(session[c])])
           /\ Expiring(accounts[Get(session[c])], clock))
          => /\ tkpc'[c] = "refreshing"
             /\ trace[c].refresh = 0
             /\ trace'[c].refresh = 1
    /\ tkpc[c] # "load" => trace'[c].refresh = trace[c].refresh

\* C11 as stated: a call that loads a refreshable grant whose expiresAt is
\* missing, past or within the skew window makes exactly one refresh call, and
\* when it succeeds the persisted expires_at is strictly later than the one the
\* call loaded.
C11_RefreshPersistsLaterExpiry ==
    [][\A c \in Calls :
          /\ OneRefreshPerCall(c)
          /\ (tkpc[c] = "persist" /\ tkpc'[c] = "done")
                => Get(accounts'[Get(session[c])]).expires_at
                      > Get(account[c]).expires_at]_vars

\* C11 amended: such a call makes exactly one refresh call; when the refresh
\* succeeds the persisted expires_at is the second in which the response
\* arrived plus expires_in, and it is strictly later than the loaded one
\* whenever the loaded one was missing or already past when the response
\* arrived (inside the skew window it can be earlier).
C11_RefreshOnceExpiryFromResponse ==
    [][\A c \in Calls :
          /\ OneRefreshPerCall(c)
          /\ (tkpc[c] = "refreshing" /\ tkpc'[c] = "persist")
                => LET old == Get(account[c]).expires_at
                       new == Get(refreshedTokens'[c]).accessTokenExpires
                   IN /\ \E t \in TokenResponses : new = clock + t.expires_in * 1000
                      /\ (old = 0 \/ old * 1000 <= clock) => new \div 1000 > old
          /\ (tkpc[c] = "persist" /\ tkpc'[c] = "done")
                => Get(accounts'[Get(session[c])]).expires_at
                      = Get(refreshedTokens[c]).accessTokenExpires \div 1000]_vars

\* C11 witness: a call for u1, whose grant had expired at 50 s, has refreshed
\* once at 100 s and persisted the expiry 150 s.
C11_Witness ==
    \E c \in Calls :
       /\ tkpc[c] = "done"
       /\ session[c] = Some("u1")
       /\ trace[c].refresh = 1
       /\ trace[c].accountUpdate = 1
       /\ IsSome(tokens[c])
       /\ Get(accounts["u1"]).expires_at = 150

\* C12: when the grant is absent, has no refresh token or lacks the required
\* scope, getUserTokens returns null whatever expires_at is, starts no refresh
\* call and changes no stored grant.
C12_UnusableGrantFails ==
    [][\A c \in Calls :
          (tkpc[c] = "load" /\ tkpc'[c] # "load"
             /\ ~Refreshable(accounts[Get(session[c])]))
            => /\ tkpc'[c] = "done"
               /\ tokens'[c] = None
               /\ trace'[c].noToken = 1
               /\ trace'[c].refresh = 0
               /\ trace'[c].accountUpdate = 0
               /\ accounts' = accounts
               /\ issued' = issued]_vars

\* C12 witness: by 200 s two calls for u1 have failed without a refresh on a
\* grant with a refresh token and the expiry 500 s but without the mail scope;
\* the grant is as it was.
C12_Witness ==
    \E c, o \in Calls :
       /\ c # o
       /\ session[c] = Some("u1") /\ session[o] = Some("u1")
       /\ tkpc[c] = "done" /\ tkpc[o] = "done"
       /\ clock = 200000
       /\ trace[c].findAccount = 1 /\ trace[c].noToken = 1 /\ trace[c].refresh = 0
       /\ trace[o].findAccount = 1 /\ trace[o].noToken = 1 /\ trace[o].refresh = 0
       /\ tokens[c] = None /\ tokens[o] = None
       /\ accounts["u1"] = Some(Grant(11, 12, 500, <<"openid", "email">>))
       /\ issued = 0

\* C13: when the refresh call succeeds, the value built from the response has
\* the response's access token and either the response's refresh token or the
\* one the call loaded; getUserTokens writes that access token, that expiry and
\* that refresh token to the user's grant in one update (the only step that
\* changes a grant) and returns the access token it wrote.
C13_RefreshIsPersisted ==
    [][/\ \A c \in Calls :
            /\ (tkpc[c] = "refreshing" /\ tkpc'[c] = "persist")
                  => /\ issued' = issued + 1
                     /\ Get(refreshedTokens'[c]).accessToken = 100 + issued'
                     /\ Get(refreshedTokens'[c]).refreshToken
                           \in {200 + issued', Get(account[c]).refresh_token}
                     /\ accounts' = accounts
            /\ (tkpc[c] = "persist" /\ tkpc'[c] # "persist")
                  => LET r == Get(refreshedTokens[c])
                         u == Get(session[c])
                     IN /\ tkpc'[c] = "done"
                        /\ IsSome(accounts'[u])
                        /\ Get(accounts'[u]).access_token = r.accessToken
                        /\ Get(accounts'[u]).refresh_token = r.refreshToken
                        /\ Get(accounts'[u]).expires_at = r.accessTokenExpires \div 1000
                        /\ \A v \in Users \ {u} : accounts'[v] = accounts[v]
                        /\ trace'[c].accountUpdate = 1
                        /\ IsSome(tokens'[c])
                        /\ Get(tokens'[c]).accessToken = Get(accounts'[u]).access_token
                        /\ Get(tokens'[c]).accessToken # Get(account[c]).access_token
       /\ accounts' # accounts
            => \E c \in Calls : tkpc[c] = "persist" /\ tkpc'[c] = "done"]_vars

\* C13 witness: a call for u2 persisted the response's access token 101 with
\* its rotated refresh token 201 and the expiry 3700 s; a call for u1 then
\* persisted the access token 102 of a response without refresh token, keeping
\* the refresh token 12 it had loaded.
C13_Witness ==
    \E c, o \in Calls :
       /\ tkpc[c] = "done" /\ tkpc[o] = "done"
       /\ session[c] = Some("u2") /\ session[o] = Some("u1")
       /\ tokens[c] = Some(Tokens(101, 201))
       /\ tokens[o] = Some(Tokens(102, 12))
       /\ Get(accounts["u2"]).access_token = 101
       /\ Get(accounts["u2"]).refresh_token = 201
       /\ Get(accounts["u2"]).expires_at = 3700
       /\ Get(accounts["u1"]).access_token = 102
       /\ Get(accounts["u1"]).refresh_token = 12

\* C14: when the refresh call fails, getUserTokens returns null having made
\* one refresh call and no more, and every stored grant keeps its access token,
\* refresh token, expiry and scope.
C14_FailedRefreshLeavesGrant ==
    [][\A c \in Calls :
          /\ tkpc[c] = "refreshing" => trace'[c].refresh = trace[c].refresh
          /\ (tkpc[c] = "refreshing" /\ tkpc'[c] # "refreshing"
                 /\ refreshedTokens'[c] = None)
                => /\ tkpc'[c] = "done"
                   /\ tokens'[c] = None
                   /\ trace'[c].refresh = 1
                   /\ trace'[c].noToken = 1
                   /\ trace'[c].accountUpdate = 0
                   /\ issued' = issued
                   /\ accounts' = accounts
          /\ (tkpc[c] = "done" /\ tokens[c] = None)
                => (tkpc'[c] = "done" /\ trace'[c] = trace[c])]_vars

\* C14 witness: a call for u2 has failed after one refresh call that the
\* provider did not answer with tokens; u2's grant is the one it was.
C14_Witness ==
    \E c \in Calls :
       /\ tkpc[c] = "done"
       /\ session[c] = Some("u2")
       /\ tokens[c] = None
       /\ trace[c].refresh = 1
       /\ trace[c].noToken = 1
       /\ issued = 0
       /\ accounts["u2"] = Some(Grant(21, 22, 0, <<GmailSend, "email">>))

\* the calls whose refresh call for user u is in flight
RefreshesInFlight(u) ==
    {c \in Calls : tkpc[c] = "refreshing" /\ session[c] = Some(u)}

\* C15: refreshes are serialized per user: at any time at most one refresh
\* call is in flight for a user, also when several send requests of that user
\* run concurrently and all see an expired token.
C15_RefreshesSerialized ==
    \A u \in Users : Cardinality(RefreshesInFlight(u)) <= 1

------------------------------------------------------------------------------
\* Error taxonomy (checked under Spec)

\* the taxonomy kind a response code of the handler stands for ("" for a
\* response without code, "Other" for a code outside the taxonomy)
KindOf(code) ==
    CASE code = "AUTH_REQUIRED" -> "AuthRequired"
      [] code = "AUTH_EXPIRED" -> "AuthExpired"
      [] code = "PERMISSION_DENIED" -> "PermissionDenied"
      [] code = "RATE_LIMIT" -> "RateLimited"
      [] code \in {"GMAIL_API_ERROR", "SEND_FAILED"} -> "TransportError"
      [] code = "MISSING_SENDER_EMAIL" -> "ValidationError"
      [] code = "" -> ""
      [] OTHER -> "Other"

\* the kind and the HTTP status the taxonomy gives a provider failure
KindFor(e) ==
    IF e.code = 401 \/ (\E i \in 1..Len(e.message) : e.message[i] = "invalid_grant")
    THEN [kind |-> "AuthExpired", status |-> 401]
    ELSE IF e.code = 403 THEN [kind |-> "PermissionDenied", status |-> 403]
    ELSE IF e.code = 429 THEN [kind |-> "RateLimited", status |-> 429]
    ELSE [kind |-> "TransportError", status |-> 500]

\* the provider failure that ended call c: the error of its pre-flight or the
\* error its send call threw
PreflightErrorOf(c) ==
    IF IsSome(gmailTest[c]) /\ ~Get(gmailTest[c]).success
    THEN Get(gmailTest[c]).error ELSE None

SendErrorOf(c) ==
    IF IsSome(sendError[c]) /\ Get(sendError[c]) \in ProviderErrors
    THEN sendError[c] ELSE None

\* C16: a call ended by a provider failure, of the pre-flight or of the send,
\* answers with the code and the HTTP status the taxonomy gives that failure:
\* 401 / invalid grant -> AuthExpired 401, 403 -> PermissionDenied 403,
\* 429 -> RateLimited 429, anything else -> TransportError 500.
C16_ProviderFailureMapping ==
    \A c \in Calls :
       Returned(c) =>
          /\ IsSome(PreflightErrorOf(c)) =>
                /\ KindOf(Get(response[c]).code) = KindFor(Get(PreflightErrorOf(c))).kind
                /\ Get(response[c]).status = KindFor(Get(PreflightErrorOf(c))).status
          /\ IsSome(SendErrorOf(c)) =>
                /\ KindOf(Get(response[c]).code) = KindFor(Get(SendErrorOf(c))).kind
                /\ Get(response[c]).status = KindFor(Get(SendErrorOf(c))).status

TaxonomyKinds ==
    {"ValidationError", "AuthRequired", "AuthExpired", "PermissionDenied",
     "RateLimited", "TransportError"}

\* C17: every response that is not the success response has success:false and
\* carries a code of the taxonomy; no failure path answers without a code.
C17_FailureCarriesCode ==
    \A c \in Calls :
       (Returned(c) /\ Get(response[c]).success # "true")
          => /\ Get(response[c]).success = "false"
             /\ Get(response[c]).code # ""
             /\ KindOf(Get(response[c]).code) \in TaxonomyKinds

\* the part of a response the caller reads
Visible(r) == <<r.status, r.success, r.error, r.details, r.code>>

\* C18: the message of a provider error never appears in the response: the
\* details of a call ended by a provider failure are not the provider's
\* message, and two calls ended at the same stage by provider errors with the
\* same status code get the same response, whatever the messages were.
C18_ProviderTextNotRelayed ==
    /\ \A c \in Calls :
          Returned(c) =>
             /\ IsSome(PreflightErrorOf(c))
                   => Get(response[c]).details # Get(PreflightErrorOf(c)).message
             /\ IsSome(SendErrorOf(c))
                   => Get(response[c]).details # Get(SendErrorOf(c)).message
    /\ \A c1, c2 \in Calls :
          (Returned(c1) /\ Returned(c2)) =>
             /\ (/\ IsSome(PreflightErrorOf(c1)) /\ IsSome(PreflightErrorOf(c2))
                 /\ Get(PreflightErrorOf(c1)).code = Get(PreflightErrorOf(c2)).code)
                   => Visible(Get(response[c1])) = Visible(Get(response[c2]))
             /\ (/\ IsSome(SendErrorOf(c1)) /\ IsSome(SendErrorOf(c2))
                 /\ Get(SendErrorOf(c1)).code = Get(SendErrorOf(c2)).code
                 /\ RowOf(c1).status = RowOf(c2).status)
                   => Visible(Get(response[c1])) = Visible(Get(response[c2]))

------------------------------------------------------------------------------
\* Sender identity (checked under Spec)

\* the email address of the From header of a transmitted message
FromAddress(raw) == raw[2].value[2]

\* the email addresses of u1 and u2 as the identity provider gives them
AddressOf(u) ==
    CASE u = "u1" -> <<"u", "1", "@", "m", ".", "io">>
      [] u = "u2" -> <<"u", "2", "@", "m", ".", "io">>

\* C19: the senderEmail of every SendRecord and the From address of every
\* transmitted message is the email of the session user of the call, whatever
\* the body says (calls of one session have one sender address); a call whose
\* session has no email creates no record and makes no call at all.
C19_SenderFromSession ==
    \A c \in Calls :
       /\ Created(c) =>
             /\ IsSome(session[c])
             /\ Get(session[c]) \in {"u1", "u2"}
             /\ RowOf(c).senderEmail = AddressOf(Get(session[c]))
             /\ RowOf(c).userId = Get(session[c])
       /\ \A m \in AcceptedFrom(c) :
             /\ gmail[m].raw[2].name = "From"
             /\ FromAddress(gmail[m].raw) = AddressOf(Get(session[c]))
       /\ \A o \in Calls :
             (Created(c) /\ Created(o) /\ session[c] = session[o])
                => RowOf(c).senderEmail = RowOf(o).senderEmail
       /\ (pc[c] # "idle" /\ (~IsSome(session[c]) \/ Get(session[c]) = "u3"))
             => (~Created(c) /\ trace[c] = NoTrace /\ AcceptedFrom(c) = {})

\* C19 witness: two calls of u1 whose bodies differ in subject, recipients,
\* replyTo and senderName have both been transmitted, both records and both
\* From headers carry u1's address.
C19_Witness ==
    \E c, o \in Calls :
       /\ c # o
       /\ session[c] = Some("u1") /\ session[o] = Some("u1")
       /\ Get(data[c]).replyTo = None /\ Get(data[o]).replyTo = Some(E_cd)
       /\ Get(data[o]).senderName = Some("Boss")
       /\ Created(c) /\ Created(o)
       /\ RowOf(c).senderEmail = <<"u", "1", "@", "m", ".", "io">>
       /\ RowOf(o).senderEmail = <<"u", "1", "@", "m", ".", "io">>
       /\ RowOf(o).senderName = "Boss"
       /\ Len(gmail) = 2
       /\ \A m \in 1..2 : FromAddress(gmail[m].raw) = <<"u", "1", "@", "m", ".", "io">>

\* C19 witness, second case: the call of a session without email (u3) was
\* answered 400 MISSING_SENDER_EMAIL and created nothing.
C19_NoEmailWitness ==
    \E c \in Calls :
       /\ Returned(c)
       /\ session[c] = Some("u3")
       /\ Get(response[c]) = MissingSenderEmail
       /\ ~Created(c)

------------------------------------------------------------------------------
\* Envelope (checked under Spec)

\* the header names the envelope is to carry, Reply-To only when supplied
EnvelopeHeaders(replyTo) ==
    <<"To", "From", "Subject">>
    \o (IF IsSome(replyTo) THEN <<"Reply-To">> ELSE <<>>)
    \o <<"MIME-Version", "Content-Type">>

\* text is: the headers of names hs, each followed by CRLF, then one more CRLF
\* (the blank line), then one unit of body
IsEnvelope(text, hs) ==
    /\ Len(text) = 2 * Len(hs) + 2
    /\ \A k \in 1..Len(hs) :
          /\ text[2 * k - 1].name = hs[k]
          /\ text[2 * k] = CRLF
    /\ text[2 * Len(hs) + 1] = CRLF
    /\ text[2 * Len(hs) + 2].name = ""
    /\ text[2 * Len(hs) + 2].value # <<>>

\* byte strings whose base64 form has "+", "/" and padding
SampleBytes ==
    { <<>>, <<251>>, <<255, 255>>, <<251, 255, 191>>, <<77, 97, 110>>,
      <<251, 239, 190, 255>>, <<0, 16, 131, 255, 255>> }

\* C20: every transmitted message is the header lines To, From, Subject,
\* Reply-To (exactly when replyTo was supplied), MIME-Version and Content-Type,
\* then a blank line, then the rendered HTML, joined with CRLF; and the
\* base64url encoding has no "+", "/" or "=".
C20_EnvelopeHasBlankLine ==
    /\ \A m \in 1..Len(gmail) :
          IsEnvelope(JoinCRLF(gmail[m].raw),
                     EnvelopeHeaders(Get(data[gmail[m].call]).replyTo))
    /\ \A b \in SampleBytes :
          \A i \in 1..Len(Base64Url(b)) : Base64Url(b)[i] \notin {"+", "/", "="}

------------------------------------------------------------------------------
\* Renderer (checked under RenderSpec)

\* C21: the compatibility rewrites are idempotent: rendering the rendered
\* output again gives the same HTML (an <img> does not get the display:block
\* style a second time, a <table> with cellpadding stays as it is, a
\* line-height that has mso-line-height-rule:exactly is not extended again).
C21_RewritesIdempotent ==
    [][\A c \in Calls :
          (pc[c] = "rendered" /\ trace'[c].render = trace[c].render + 1)
             => finalHtml'[c] = finalHtml[c]]_vars

\* the first node that is not white space is <!doctype or <html, in any case
StartsAsDocument(t) ==
    \E k \in 1..Len(t) :
       /\ \A j \in 1..(k - 1) : t[j].tag = "#ws"
       /\ t[k].tag \in {"!doctype", "!DOCTYPE", "html", "HTML"}

\* out is a document with UTF-8 charset, viewport meta and empty title whose
\* body holds exactly the nodes of t
IsWrapped(out, t) ==
    \E b \in 1..Len(out) :
       /\ out[1].tag = "!DOCTYPE"
       /\ out[b].tag = "body"
       /\ \E i \in 1..(b - 1) : out[i] = Node("meta", <<"charset=UTF-8">>)
       /\ \E i \in 1..(b - 1) : out[i] = Node("meta", <<"viewport">>)
       /\ \E i \in 1..(b - 2) : out[i].tag = "title" /\ out[i + 1].tag = "/title"
       /\ Len(out) = b + Len(t) + 2
       /\ SubSeq(out, b + 1, b + Len(t)) = t
       /\ out[b + Len(t) + 1].tag = "/body"
       /\ out[b + Len(t) + 2].tag = "/html"

\* C22: processHtmlForEmail returns an input that starts (trimmed, lower-cased)
\* with <!doctype or <html unchanged and wraps any other input, unchanged,
\* in the body of a boilerplate document; normalizing its output again
\* changes nothing.
C22_NormalizationWrapsOnce ==
    [][\A c \in Calls :
          /\ (pc[c] = "idle" /\ pc'[c] = "rendered")
                => LET t == Get(data'[c]).template
                       out == Get(processedHtml'[c])
                   IN IF StartsAsDocument(t) THEN out = t ELSE IsWrapped(out, t)
          /\ (pc[c] = "rendered" /\ pc'[c] = "normalized")
                => processedHtml'[c] = processedHtml[c]]_vars

\* C22 witness: a fragment was wrapped and the document normalized again; a
\* document that starts with white space and <HTML was returned as it was and
\* normalized again.
C22_Witness ==
    \E c, o \in Calls :
       /\ pc[c] = "normalized" /\ pc[o] = "normalized"
       /\ Get(data[c]).template = Fragment
       /\ Len(Get(processedHtml[c])) = Len(Fragment) + 13
       /\ Get(processedHtml[c])[12] = Node("p", <<>>)
       /\ Head(Get(data[o]).template).tag = "#ws"
       /\ processedHtml[o] = Some(Get(data[o]).template)

------------------------------------------------------------------------------
\* Audit record and grants, continued

\* C23 (checked under Spec): every call that created a record and returned a
\* failure has written the failure's message to the record's errorMessage; a
\* FAILED record has the message of the failure that ended its call, and
\* PENDING and SENT records have no errorMessage.
C23_FailureIsRecorded ==
    \A c \in Calls :
       Created(c) =>
          /\ (Returned(c) /\ Get(response[c]).success # "true")
                => /\ RowOf(c).status = "FAILED"
                   /\ IsSome(RowOf(c).errorMessage)
                   /\ Get(RowOf(c).errorMessage) # <<>>
          /\ (Returned(c) /\ IsSome(PreflightErrorOf(c)))
                => RowOf(c).errorMessage = Some(Get(PreflightErrorOf(c)).message)
          /\ RowOf(c).status = "FAILED"
                => /\ IsSome(sendError[c])
                   /\ RowOf(c).errorMessage = Some(Get(sendError[c]).message)
          /\ RowOf(c).status \in {"PENDING", "SENT"} => RowOf(c).errorMessage = None

\* C24 (checked under TokenSpec): no step of any getUserTokens call removes a
\* grant or leaves a grant that had a refresh token without one.
C24_RefreshTokenIsKept ==
    [][\A u \in Users :
          (IsSome(accounts[u]) /\ Get(accounts[u]).refresh_token # NoToken)
             => (IsSome(accounts'[u]) /\ Get(accounts'[u]).refresh_token # NoToken)]_vars

\* C24 witness: of two concurrent calls for u1, whose grant had expired, one
\* refreshed without rotation and persisted, the other's refresh failed; the
\* grant has the new access token and still the refresh token 12.
C24_Witness ==
    \E c, o \in Calls :
       /\ session[c] = Some("u1") /\ session[o] = Some("u1")
       /\ tkpc[c] = "done" /\ tkpc[o] = "done"
       /\ trace[c].accountUpdate = 1
       /\ trace[o].refresh = 1 /\ trace[o].noToken = 1
       /\ tokens[c] = Some(Tokens(101, 12))
       /\ IsSome(accounts["u1"])
       /\ Get(accounts["u1"]).access_token = 101
       /\ Get(accounts["u1"]).refresh_token = 12

\* the status of the row of call c, "" while the call has no row
StatusOf(c) == IF Created(c) THEN RowOf(c).status ELSE ""

\* C25 (checked under Spec): a call issues users.messages.send only when its
\* record exists with status PENDING; the status of its record changes only
\* once that send has returned or thrown; and each message the provider holds
\* belongs to a call that has a record.
C25_RecordBracketsSend ==
    /\ [][\A c \in Calls :
             /\ trace'[c].send > trace[c].send
                   => (Created(c) /\ RowOf(c).status = "PENDING")
             /\ (Created(c) /\ StatusOf(c)' # StatusOf(c))
                   => /\ trace[c].send = 1
                      /\ (IsSome(sendResponse[c]) \/ IsSome(sendError[c]))
                      /\ RowOf(c).status = "PENDING"]_vars
    /\ [](\A c \in Calls :
             (trace[c].send > 0 \/ trace[c].accepted > 0) => Created(c))

\* C25 witness: one call has issued the send and awaits the answer, its row is
\* PENDING; the other call's send was refused with 429 and its row, created
\* before, is FAILED.
C25_Witness ==
    \E c, o \in Calls :
       /\ pc[c] = "sending" /\ Created(c) /\ RowOf(c).status = "PENDING"
       /\ trace[c].send = 1 /\ trace[c].create = 1
       /\ Returned(o) /\ Created(o) /\ RowOf(o).status = "FAILED"
       /\ trace[o].send = 1 /\ trace[o].accepted = 0
       /\ IsSome(sendError[o]) /\ Get(sendError[o]).code = 429

\* the calls for user u that refreshed and persisted
Writers(u) ==
    { w \in Calls : /\ session[w] = Some(u)
                    /\ tkpc[w] = "done"
                    /\ trace[w].accountUpdate = 1
                    /\ IsSome(tokens[w]) }

\* C26 (checked under TokenSpec): when calls for one user have refreshed and
\* persisted, the grant holds the access token and the refresh token of one
\* and the same of them; each persisting step writes the access token, refresh
\* token and expiry of its own response together and returns that access
\* token; and two such callers hold different access tokens.
C26_LastWriterWins ==
    /\ [](\A u \in Users :
             Writers(u) # {} =>
                /\ IsSome(accounts[u])
                /\ \E w \in Writers(u) :
                      /\ Get(accounts[u]).access_token = Get(tokens[w]).accessToken
                      /\ Get(accounts[u]).refresh_token = Get(tokens[w]).refreshToken
                /\ \A w, x \in Writers(u) :
                      w # x => Get(tokens[w]).accessToken # Get(tokens[x]).accessToken)
    /\ [][\A c \in Calls :
             trace'[c].accountUpdate > trace[c].accountUpdate =>
                LET r == Get(refreshedTokens[c])
                    g == Get(accounts'[Get(session[c])])
                IN /\ g.access_token = r.accessToken
                   /\ g.refresh_token = r.refreshToken
                   /\ g.expires_at = r.accessTokenExpires \div 1000
                   /\ tokens'[c] = Some(Tokens(r.accessToken, r.refreshToken))]_vars

\* C26 witness: two calls for u2 refreshed concurrently.  One got access token
\* 101 and the rotated refresh token 201, the other got 102 without rotation
\* and wrote last: the grant holds 102 with the refresh token 22 that call
\* sent, nothing of the first response.
C26_Witness ==
    \E c, o \in Calls :
       /\ c # o
       /\ Writers("u2") = {c, o}
       /\ tokens[c] = Some(Tokens(101, 201))
       /\ tokens[o] = Some(Tokens(102, 22))
       /\ Get(accounts["u2"]).access_token = 102
       /\ Get(accounts["u2"]).refresh_token = 22

\* the rows of user u, by position
RowsOf(u) == { i \in 1..Len(emailSends) : emailSends[i].userId = u }

------------------------------------------------------------------------------
\* Authentication and chat ownership

\* the request of call c names a chat that is not its session user's
ForeignChat(c) ==
    /\ IsSome(session[c])
    /\ Get(data[c]).chatId # ""
    /\ ~IsSome(FindChat(Get(data[c]).chatId, Get(session[c])))

\* messages are sent and records kept only for the owner of the chat
OwnerOnly ==
    /\ \A c \in Calls :
          (trace[c].send > 0 \/ Created(c))
             => (IsSome(session[c]) /\ ~ForeignChat(c) /\ Get(data[c]).chatId # "")
    /\ \A i \in 1..Len(emailSends) :
          /\ emailSends[i].chatId \in ChatIds
          /\ emailSends[i].userId = ChatOwner(emailSends[i].chatId)

\* C28 as stated: without a session the call returns 401, with a chat id that
\* is not the session user's it returns 404, both without a record, a token
\* lookup or a provider call; every record's owner is the owner of its chat.
C28_ForeignChatIs404 ==
    /\ \A c \in Calls :
          Returned(c) =>
             /\ ~IsSome(session[c]) => (Get(response[c]).status = 401 /\ Untouched(c))
             /\ ForeignChat(c) => (Get(response[c]).status = 404 /\ Untouched(c))
    /\ OwnerOnly

\* C28 amended: without a session the call returns 401; with a chat id that is
\* not the session user's it returns 404, or 400 when the subject or the
\* template is missing; in all these cases there is no record, no token lookup
\* and no provider call; every record's owner is the owner of its chat.
C28_OnlyOwnerSends ==
    /\ \A c \in Calls :
          Returned(c) =>
             LET d == Get(data[c])
                 missing == d.subject = "" \/ d.template = <<>>
             IN /\ ~IsSome(session[c]) => (Get(response[c]) = Unauthorized /\ Untouched(c))
                /\ (ForeignChat(c) /\ ~missing)
                      => (Get(response[c]) = ChatNotFound /\ Untouched(c))
                /\ (ForeignChat(c) /\ missing)
                      => (Get(response[c]) = MissingFields /\ Untouched(c))
    /\ OwnerOnly

\* C28 witness: one call without a session was answered 401, the other, u1
\* naming u2's chat c2 with all fields present, 404; neither left a trace and
\* there is no record.
C28_Witness ==
    \E c, o \in Calls :
       /\ Returned(c) /\ ~IsSome(session[c])
       /\ Get(response[c]).status = 401 /\ Untouched(c)
       /\ Returned(o) /\ session[o] = Some("u1")
       /\ Get(data[o]).chatId = "c2" /\ Get(data[o]).subject = "Hi"
       /\ Get(response[o]).status = 404 /\ Untouched(o)
       /\ emailSends = <<>> /\ gmail = <<>>

\* C29 (checked under Spec): a record is SENT only if the provider accepted
\* the call's message; a record whose message the provider accepted is never
\* FAILED, and is SENT once its call has returned.
C29_AcceptedIsSent ==
    \A c \in Calls :
       Created(c) =>
          /\ RowOf(c).status = "SENT" => trace[c].accepted = 1
          /\ trace[c].accepted = 1 => RowOf(c).status # "FAILED"
          /\ (trace[c].accepted = 1 /\ Returned(c)) => RowOf(c).status = "SENT"

------------------------------------------------------------------------------
\* Chat sessions

\* C30 (checked under SessionSpec): sessions, sessionHistory and
\* sessionMetadata hold the same ids, and an id that clearSession or DELETE
\* has cleared is in none of them until it is passed to getOrCreateSession
\* again, whatever the interleaving of DELETE with a POST awaiting the model.
C30_SessionMapsAgree ==
    /\ Keys(sessions) = Keys(sessionHistory)
    /\ Keys(sessionHistory) = Keys(sessionMetadata)
    /\ \A id \in cleared :
          ~Has(sessions, id) /\ ~Has(sessionHistory, id) /\ ~Has(sessionMetadata, id)

====
